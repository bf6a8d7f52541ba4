--------------------------- MODULE MCMutantVerdict --------------------------
EXTENDS MutantVerdict

\* The package's own suite with two covering tests, a dependent without any and
\* a dependent with one.
MCCovering == <<{"a", "b"}, {}, {"c"}>>
=============================================================================
