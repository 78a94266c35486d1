--------------------------- MODULE TestSelection ---------------------------
(***************************************************************************)
(* From test functions to the report: the test_fn macro expands attributes *)
(* into TESTS (test-macro), main filters, repeats and counts them          *)
(* (main.rs, TestFilter of util.rs, config.rs, junit.rs).                  *)
(*                                                                         *)
(* A label is the text of a name <<n>>, of keys <<k>> and of properties    *)
(* <<k, v>>; a token has the same forms, or is << >> if the regex rejects  *)
(* it.  Which token is a substring of which text is a parameter.  No token *)
(* contains a separator, so what label.contains finds is within one text.  *)
(***************************************************************************)
EXTENDS Naturals, Sequences, FiniteSets, SequencesExt

CONSTANTS Programs,  \* sets of test functions: sequences of [name, attrs]
          PartOf,    \* pairs of a token and a longer text that contains it
          Raws,      \* TEST_FILTER, split at commas: sequences of [neg, tok]
          Repeats    \* values of TEST_REPEAT, zero included

(* What the attributes of a test function say. *)
Param == [name : STRING, values : Seq(STRING), optional : BOOLEAN]
Function == [name : STRING, attrs : Seq([specs : Seq(Param), skip : BOOLEAN])]

(***************************************************************************)
(* No two functions of a program have one name, and no parameter lists a   *)
(* value twice.  "None" stands for Option::None, which is not a value.     *)
(***************************************************************************)
ASSUME ProgramsAssumption ==
    /\ Programs \subseteq Seq(Function)
    /\ \A prog \in Programs : \A f \in DOMAIN prog :
          /\ \A g \in DOMAIN prog : prog[f].name = prog[g].name => f = g
          /\ \A a \in DOMAIN prog[f].attrs : \A s \in DOMAIN prog[f].attrs[a].specs :
                LET v == prog[f].attrs[a].specs[s].values
                IN IsInjective(v) /\ \A j \in DOMAIN v : v[j] # "None"
ASSUME PartAssumption == PartOf \subseteq Seq(STRING) \X Seq(STRING)
ASSUME InputAssumption ==
    /\ Raws \subseteq Seq([neg : BOOLEAN, tok : Seq(STRING)])
    /\ Repeats \subseteq Nat

VARIABLES program, raw, repeat, junit,   \* the input; raw is in a set, {} if unset
          entries,    \* TESTS
          filter,     \* the parsed filter, in a set
          i,          \* the entry that the filter closure looks at
          tests,      \* indices of selected entries
          skips,      \* indices in skip_results
          scheduled,  \* how often each entry is run
          report,     \* the numbers in the JUnit report
          pc

inputs == <<program, raw, repeat, junit>>
vars == <<program, raw, repeat, junit, entries, filter, i, tests, skips,
          scheduled, report, pc>>

-----------------------------------------------------------------------------
(* The macro. *)

(* Fault: an optional parameter has no None variant. *)
Values_NoNone(spec) == spec.values

(* The values of a ParamSpec; `[...]` is optional and starts with None. *)
Values(spec) == (IF spec.optional THEN <<"None">> ELSE << >>) \o spec.values

(* cartesian_product: each combination so far, continued by each value. *)
Continue(result, spec) ==
    FlattenSeq([c \in DOMAIN result |->
        [v \in DOMAIN Values(spec) |->
            Append(result[c], <<spec.name, Values(spec)[v]>>)]])

cartesian_product(specs) == FoldLeft(Continue, << << >> >>, specs)

(* The attributes' combinations one after the other; no specs make one. *)
AllCombos(attrs) ==
    FlattenSeq([a \in DOMAIN attrs |-> cartesian_product(attrs[a].specs)])

(* make_props_code: None is not shown. *)
Props(combo) == {combo[j] : j \in {k \in DOMAIN combo : combo[k][2] # "None"}}

(* Fault: of the stacked attributes only the first is asked for skip. *)
Entries_FirstSkip(fn) ==
    [c \in DOMAIN AllCombos(fn.attrs) |->
        [name |-> fn.name, props |-> Props(AllCombos(fn.attrs)[c]), skip |-> fn.attrs[1].skip]]

(* test_fn: skip of any of the stacked attributes holds for all entries. *)
Entries(fn) ==
    [c \in DOMAIN AllCombos(fn.attrs) |->
        [name |-> fn.name, props |-> Props(AllCombos(fn.attrs)[c]),
         skip |-> \E a \in DOMAIN fn.attrs : fn.attrs[a].skip]]

(* The texts a label is put together from; what separates them is in no token. *)
Texts(e) == {<<e.name>>} \cup {<<p[1]>> : p \in e.props} \cup e.props

(* TestEntry::label, as all that label.contains finds in it. *)
Label(e) == Texts(e) \cup {part[1] : part \in {q \in PartOf : q[2] \in Texts(e)}}

-----------------------------------------------------------------------------
(* The filter. *)

Tokens(r, sign) == {r[j].tok : j \in {k \in DOMAIN r : r[k].neg = sign}}

(* TestFilter::parse; an invalid token anywhere makes it fail. *)
Parses(r) == \A j \in DOMAIN r : r[j].tok # << >>
parse(r) == [include |-> Tokens(r, FALSE), exclude |-> Tokens(r, TRUE)]

(* Fault: positive tokens are looked at first. *)
matches_PositiveFirst(f, label, skip) ==
    \/ f.include \cap label # {}
    \/ f.include = {} /\ f.exclude \cap label = {} /\ ~skip

matches(f, label, skip) ==
    /\ f.exclude \cap label = {}
    /\ IF f.include # {} THEN f.include \cap label # {} ELSE ~skip

-----------------------------------------------------------------------------

TypeOK ==
    /\ program \in Programs /\ repeat \in Repeats /\ junit \in BOOLEAN
    /\ raw \in SUBSET Raws /\ Cardinality(raw) <= 1
    /\ Cardinality(filter) <= Cardinality(raw)
    /\ i \in 1 .. Len(entries) + 1
    /\ tests \subseteq 1 .. i - 1 /\ skips \subseteq 1 .. i - 1
    /\ \A e \in DOMAIN scheduled : scheduled[e] \in Repeats \ {0}
    /\ pc \in {"macro", "config", "select", "run", "Ok", "Err", "ConfigErr", "Panic"}

Init ==
    /\ program \in Programs /\ repeat \in Repeats /\ junit \in BOOLEAN
    /\ raw \in {{}} \cup {{r} : r \in Raws}
    /\ entries = << >> /\ filter = {} /\ i = 1 /\ tests = {} /\ skips = {}
    /\ scheduled = << >> /\ report = {} /\ pc = "macro"

Expand ==
    /\ pc = "macro" /\ pc' = "config"
    /\ entries' = FlattenSeq([f \in DOMAIN program |-> Entries(program[f])])
    /\ UNCHANGED <<inputs, filter, i, tests, skips, scheduled, report>>

(* Fault: zero repetitions are accepted. *)
Configure_ZeroRepeat ==
    /\ pc = "config"
    /\ \/ (\E r \in raw : ~Parses(r)) /\ pc' = "ConfigErr" /\ UNCHANGED filter
       \/ /\ \A r \in raw : Parses(r)
          /\ pc' = "select" /\ filter' = {parse(r) : r \in raw}
    /\ UNCHANGED <<inputs, entries, i, tests, skips, scheduled, report>>

(* Config: an invalid filter or TEST_REPEAT=0 ends the program. *)
Configure ==
    /\ pc = "config"
    /\ \/ /\ repeat = 0 \/ \E r \in raw : ~Parses(r)
          /\ pc' = "ConfigErr" /\ UNCHANGED filter
       \/ /\ repeat # 0 /\ \A r \in raw : Parses(r)
          /\ pc' = "select" /\ filter' = {parse(r) : r \in raw}
    /\ UNCHANGED <<inputs, entries, i, tests, skips, scheduled, report>>

(* Fault: what the filter leaves out is reported as skipped. *)
Select_ReportsFiltered ==
    /\ pc = "select" /\ i <= Len(entries)
    /\ LET e == entries[i]
           chosen == IF filter = {} THEN ~e.skip
                     ELSE \A f \in filter : matches(f, Label(e), e.skip)
       IN /\ tests' = IF chosen THEN tests \cup {i} ELSE tests
          /\ skips' = IF e.skip /\ ~chosen /\ junit THEN skips \cup {i} ELSE skips
    /\ i' = i + 1
    /\ UNCHANGED <<inputs, entries, filter, scheduled, report, pc>>

(***************************************************************************)
(* The filter closure for one entry; a result is pushed to skip_results    *)
(* only if it is the annotation, and not the filter, that leaves it out.   *)
(***************************************************************************)
Select ==
    /\ pc = "select" /\ i <= Len(entries)
    /\ LET e == entries[i]
           chosen == IF filter = {} THEN ~e.skip
                     ELSE \A f \in filter : matches(f, Label(e), e.skip)
           annotated == e.skip /\ ~chosen
                        /\ \A f \in filter : matches(f, Label(e), FALSE)
       IN /\ tests' = IF chosen THEN tests \cup {i} ELSE tests
          /\ skips' = IF annotated /\ junit THEN skips \cup {i} ELSE skips
    /\ i' = i + 1
    /\ UNCHANGED <<inputs, entries, filter, scheduled, report, pc>>

(* tests.repeat(test_repeat), then shuffle. *)
Schedule ==
    /\ pc = "select" /\ i > Len(entries) /\ pc' = "run"
    /\ scheduled' = [e \in tests |-> repeat]
    /\ UNCHANGED <<inputs, entries, filter, i, tests, skips, report>>

(* format_junit counts skipped and run tests. *)
Counts(run, failures) ==
    [tests |-> Cardinality(skips) + run, failures |-> failures, skipped |-> Cardinality(skips)]

(* Fault: a report that cannot be written is ignored. *)
Report_Ignores ==
    /\ pc = "run"
    /\ \E run \in {FoldFunction(+, 0, scheduled)} : \E failures \in 0 .. run :
          /\ report' \in {{}} \cup (IF junit THEN {{Counts(run, failures)}} ELSE {})
          /\ pc' = IF failures = 0 THEN "Ok" ELSE "Err"
    /\ UNCHANGED <<inputs, entries, filter, i, tests, skips, scheduled>>

(***************************************************************************)
(* The tests have run, some of them failed; main writes the report, or     *)
(* panics if it cannot, and decides what to return.                        *)
(***************************************************************************)
Report ==
    /\ pc = "run"
    /\ \/ junit /\ pc' = "Panic" /\ UNCHANGED report
       \/ \E run \in {FoldFunction(+, 0, scheduled)} : \E failures \in 0 .. run :
             /\ report' = IF junit THEN {Counts(run, failures)} ELSE {}
             /\ pc' = IF failures = 0 THEN "Ok" ELSE "Err"
    /\ UNCHANGED <<inputs, entries, filter, i, tests, skips, scheduled>>

Next == Expand \/ Configure \/ Select \/ Schedule \/ Report

Spec == Init /\ [][Next]_vars

-----------------------------------------------------------------------------
(* Properties. *)

(* All ways to choose a value for each parameter of an attribute. *)
Assignments(attr) ==
    LET allowed(s) == ToSet(attr.specs[s].values)
                      \cup (IF attr.specs[s].optional THEN {"None"} ELSE {})
    IN {g \in [DOMAIN attr.specs -> UNION {allowed(s) : s \in DOMAIN attr.specs}] :
           \A s \in DOMAIN attr.specs : g[s] \in allowed(s)}

Shown(attr, g) ==
    {<<attr.specs[s].name, g[s]>> : s \in {t \in DOMAIN attr.specs : g[t] # "None"}}

(***************************************************************************)
(* Every test function is registered once for every choice of values that  *)
(* one of its stacked attributes allows, None included, and not more often *)
(* (README: "This will expand to 1 + 2 = 3 tests").                        *)
(***************************************************************************)
ExpandsToProduct ==
    pc # "macro" => \A f \in DOMAIN program :
        LET fn == program[f]
            own == {e \in DOMAIN entries : entries[e].name = fn.name}
        IN /\ \A a \in DOMAIN fn.attrs : \A g \in Assignments(fn.attrs[a]) :
                 \E e \in own : entries[e].props = Shown(fn.attrs[a], g)
           /\ Cardinality(own) =
                 Cardinality(UNION {{<<a, g>> : g \in Assignments(fn.attrs[a])} :
                                        a \in DOMAIN fn.attrs})

(***************************************************************************)
(* The README's rules, on filter and test function as they were written: a *)
(* negative token wins; with positive tokens only tests that have one of   *)
(* them run, skipped or not; without, no test of a function runs if skip   *)
(* stands in any of its stacked attributes.                                *)
(***************************************************************************)
FilterDecides ==
    pc = "run" => \A r \in raw : \A e \in DOMAIN entries :
        LET has(t) == r[t].tok \in Label(entries[e])
            pos == {t \in DOMAIN r : ~r[t].neg}
            skipped == \E f \in DOMAIN program :
                           /\ program[f].name = entries[e].name
                           /\ \E a \in DOMAIN program[f].attrs : program[f].attrs[a].skip
        IN e \in tests <=>
              /\ \A t \in DOMAIN r : has(t) => ~r[t].neg
              /\ IF pos = {} THEN ~skipped ELSE \E t \in pos : has(t)

(***************************************************************************)
(* Nothing falls between filter and report: a registered test that the     *)
(* filter does not exclude is run TEST_REPEAT times or reported as skipped *)
(* once, never both; a program that got past its configuration runs each   *)
(* selected test; and it ends, with success or with its list of failures,  *)
(* only after the report that was asked for is written and says the same.  *)
(***************************************************************************)
ReportComplete ==
    pc \in {"Ok", "Err"} =>
        /\ tests \cap skips = {} /\ DOMAIN scheduled = tests
        /\ \A e \in DOMAIN scheduled : scheduled[e] > 0
        /\ junit => \A e \in DOMAIN entries :
              LET excluded == \E f \in filter :
                    \/ f.exclude \cap Label(entries[e]) # {}
                    \/ f.include # {} /\ f.include \cap Label(entries[e]) = {}
              IN excluded <=> e \notin tests \cup skips
        /\ report # {} <=> junit
        /\ \A r \in report : /\ r.tests = r.skipped + Cardinality(tests) * repeat
                              /\ r.failures = 0 <=> pc = "Ok"
=============================================================================
