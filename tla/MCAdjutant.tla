----------------------------- MODULE MCAdjutant -----------------------------
EXTENDS Adjutant

TwoSteps == <<"recon", "combat">>

\* An order in two steps; a retreat; an order to produce; a command for the
\* language model.
FewTexts == {
    {"composite_sequence", "chained"},
    {"retreat", "only"},
    {"produce", "unit", "count"},
    {"attack", "muster", "unit"}}

\* A world in which orders can be carried out.
OneWorld == {{"capability", "force", "home", "buildable"}}
=============================================================================
