------------------------------ MODULE MCMarket ------------------------------
(***************************************************************************)
(* A small instance of Market: prices in hundredths, written in            *)
(* hundredths, tenths or wholes, the spread at times an odd number of      *)
(* units.                                                                  *)
(***************************************************************************)
EXTENDS Market

MCExponents == {-2, -1, 0}
MCMinExponent == -2

MCIncrements == {Number(1, -2), Number(5, -2), Number(1, -1)}

MCPositions == -4..4

(* Whole prices, a configuration in tenths.                                *)
MCFormulaExponent == -1

MCFormulaIncrements == {Number(1, 0)}

=============================================================================
