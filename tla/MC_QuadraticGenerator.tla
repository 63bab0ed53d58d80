----------------------- MODULE MC_QuadraticGenerator -----------------------
EXTENDS QuadraticGenerator

=============================================================================
