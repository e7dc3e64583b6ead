------------------------- MODULE MCScenarioIntake -------------------------
(* A small instance of ScenarioIntake.                                     *)
EXTENDS ScenarioIntake, TLC

CONSTANTS t1, t2, t3, k1, n1, n2

Text(unsafe, lasts, effects) ==
    [unsafe |-> unsafe, lasts |-> lasts, effects |-> effects,
     lpg |-> FALSE, known |-> TRUE]

\* Texts the parser reads, cannot read, and may not read.
Plain  == Text(FALSE, TRUE, 1)
Vague  == {Text(FALSE, FALSE, 1), Text(FALSE, TRUE, 5)}
Unsafe == Text(TRUE, TRUE, 1)

\* Crude that expires soon, LPG that does not, and a name that is not known.
Forms ==
    {[fixed |-> TRUE, expires |-> 1, lpg |-> FALSE, known |-> TRUE],
     [fixed |-> TRUE, expires |-> 3, lpg |-> TRUE, known |-> TRUE],
     [fixed |-> FALSE, expires |-> None, lpg |-> FALSE, known |-> FALSE]}

SomeDrafts == {[fixed |-> FALSE, expires |-> None, lpg |-> FALSE, known |-> TRUE]}

Compilation(mode, text, form, n) ==
    [op |-> "compile", key |-> k1, mode |-> mode, text |-> text, form |-> form,
     network |-> n]

FromForms == {Compilation("STRUCTURED_FORM", None, f, n1) : f \in Forms}

FromProvider == {Compilation("OPTIONAL_PROVIDER", Plain, None, n1)}

FromTexts ==
    {Compilation("AUTO", x, None, n1) : x \in {Plain, Unsafe} \cup Vague}
        \cup {Compilation("DETERMINISTIC_TEXT", x, None, n1) : x \in Vague}
        \cup {Compilation("AUTO", Plain, None, n2)}

Calls(ops) == [op : ops, key : Keys]

\* Confirmations and starts of what a form, a text or the provider described;
\* two compilations with one key.
SomeSends ==
    t1 :> FromForms \cup FromTexts \cup FromProvider
      @@ t2 :> FromTexts \cup Calls({"confirm"})
      @@ t3 :> Calls({"confirm", "start", "validate"})
============================================================================
