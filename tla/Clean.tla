------------------------------- MODULE Clean -------------------------------
(***************************************************************************)
(* Cleanup rules over a string column (witchhat-core/src/clean.rs).  A     *)
(* value is a sequence of characters, each standing for its class.  A rule *)
(* is a regular expression of the forms the presets use: any one of some   *)
(* characters ("each"), a longest run of them ("run"), or such a run at    *)
(* the start or the end of the value ("ends").                             *)
(***************************************************************************)
EXTENDS Naturals, SequencesExt

CONSTANT Null       \* a null cell

Letters == {"letter", "foreign_letter"}
Digits == {"digit", "foreign_digit"}
AsciiAlphanumeric == {"letter", "digit"}
Whitespace == {"space", "tab", "no_break_space"}    \* \s, of Unicode
ControlCharacters == {"tab", "escape"}              \* \x00 to \x1F, \x7F
Characters == Letters \cup Digits \cup Whitespace \cup ControlCharacters \cup {"sign"}

Shapes == {"each", "run", "ends"}
Rules == [chars : SUBSET Characters, shape : Shapes, replacement : Seq(Characters)]

-----------------------------------------------------------------------------
(* The positions of a value that some match covers. *)
Matched(rule, value) ==
    {k \in 1..Len(value) :
        \/ rule.shape # "ends" /\ value[k] \in rule.chars
        \/ rule.shape = "ends" /\ \A j \in 1..k : value[j] \in rule.chars
        \/ rule.shape = "ends" /\ \A j \in k..Len(value) : value[j] \in rule.chars}

(* Every character matched by itself. *)
StartsOfEach(rule, value) == Matched(rule, value)

(* Those where a match starts. *)
Starts(rule, value) ==
    {k \in Matched(rule, value) : rule.shape = "each" \/ k - 1 \notin Matched(rule, value)}

(* Regex::replace_all *)
RegexReplaceAll(rule, value) ==
    FlattenSeq([k \in 1..Len(value) |->
        IF k \in Starts(rule, value) THEN rule.replacement
        ELSE IF k \in Matched(rule, value) THEN <<>>
        ELSE <<value[k]>>])

(* apply_rules, to one value: each rule's output feeds the next. *)
Apply(rules, value) == FoldLeft(LAMBDA v, rule : RegexReplaceAll(rule, v), value, rules)

(* Nulls are skipped. *)
ApplyRulesSkipping(rules, column) ==
    LET values == SelectSeq(column, LAMBDA cell : cell # Null)
    IN  [i \in 1..Len(values) |-> Apply(rules, values[i])]

(* apply_rules: a null stays null. *)
ApplyRules(rules, column) ==
    [i \in 1..Len(column) |-> IF column[i] = Null THEN Null ELSE Apply(rules, column[i])]

-----------------------------------------------------------------------------
Removing(chars, shape) == <<[chars |-> chars, shape |-> shape, replacement |-> <<>>]>>

(* preset, of version v1, the only one. *)
Preset ==
    [trim_whitespace |-> Removing(Whitespace, "ends"),
     collapse_whitespace |->
        <<[chars |-> Whitespace, shape |-> "run", replacement |-> <<"space">>]>>,
     strip_control_characters |-> Removing(ControlCharacters, "each"),
     strip_non_alphanumeric |-> Removing(Characters \ (AsciiAlphanumeric \cup Whitespace), "each"),
     digits_only |-> Removing(Characters \ {"digit"}, "each")]
=============================================================================
