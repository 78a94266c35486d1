-------------------------- MODULE MCTestSelection --------------------------
(***************************************************************************)
(* The README's two examples, a test with skip in one of two attributes,   *)
(* and an empty value list.  os is part of a name, smp=1 of a property.    *)
(***************************************************************************)
EXTENDS TestSelection

One(n, v) == [name |-> n, values |-> v, optional |-> FALSE]
Opt(n, v) == [name |-> n, values |-> v, optional |-> TRUE]
Attr(s, k) == [specs |-> s, skip |-> k]

Stacked == [name |-> "kernel", attrs |-> <<
    Attr(<<One("machine", <<"pc">>), One("smp", <<"1">>)>>, FALSE),
    Attr(<<One("machine", <<"q35">>), One("smp", <<"2", "4">>)>>, FALSE)>>]
Optional == [name |-> "boot", attrs |-> <<
    Attr(<<One("smp", <<"1", "2">>), Opt("cpu", <<"host", "qemu64">>)>>, FALSE)>>]
Skipped == [name |-> "test_os_boot", attrs |-> <<
    Attr(<<One("smp", <<"16">>)>>, FALSE),
    Attr(<<One("smp", <<"1">>), Opt("cpu", << >>)>>, TRUE)>>]
Plain == [name |-> "hello", attrs |-> <<Attr(<< >>, FALSE)>>]
Empty == [name |-> "none", attrs |-> <<Attr(<<One("smp", << >>)>>, FALSE)>>]

MCPrograms == {<<Stacked, Skipped>>, <<Optional, Plain>>, <<Skipped, Empty>>}

MCPartOf == { << <<"os">>, <<"test_os_boot">> >>, << <<"smp", "1">>, <<"smp", "16">> >> }

MCTokens == {<<"kernel">>, <<"os">>, <<"smp", "1">>, <<"cpu">>, << >>}
MCToken == {[neg |-> n, tok |-> t] : n \in BOOLEAN, t \in MCTokens}
MCRaws == {<<t>> : t \in MCToken} \cup {<<t, u>> : t, u \in MCToken}
=============================================================================
