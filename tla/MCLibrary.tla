------------------------------ MODULE MCLibrary ------------------------------
(***************************************************************************)
(* Notes, Policy, Backlinks and EventLog on small instances.  They share   *)
(* no state, so a behaviour is one of one of them.                         *)
(***************************************************************************)
EXTENDS Notes, Policy, Backlinks, EventLog

CONSTANT MaxLines   \* bound: lines of a document that one writer has for itself

VARIABLE part       \* the component the behaviour is about

MCKeyOf == [a1 |-> "a", a2 |-> "a", b1 |-> "b", ai |-> "ai_suggestions"]
MCAlphabet == <<"a", "ai_suggestions", "b">>

MCChange == {{"ai"}, {"ai", "b1"}, {"a1", "b1"}}

(* Documents of up to n lines, that end as usual or in one unusual way. *)
Documents(n, tokens) ==
  {[lines |-> [i \in DOMAIN ts |-> [tok |-> ts[i], cr |-> how = "crlf"]], ended |-> how # "open"] :
     ts \in UNION {[1..k -> tokens] : k \in 1..n}, how \in {"lf", "crlf", "open"}}

MCNamespace == {<<"daily", "journal", "mon">>, <<"projects">>, <<"projectsx">>}
MCGlob == {"daily.*", "*", "proj*", "[bad"}
MCMatches ==
  {<<"daily.*", <<"daily", "journal", "mon">> >>}
    \cup {<<"*", ns>> : ns \in MCNamespace}
    \cup {<<"proj*", <<"projects">> >>, <<"proj*", <<"projectsx">> >>}

Overrides == [links : {0, 3, 5}, tags : {0, 4}, excluded : BOOLEAN]

MCBaseName == [n1 |-> "x", n2 |-> "y", n3 |-> "y"]
MCFolded == [x |-> "x", X |-> "x", y |-> "y"]

LinkLists(names, n) == UNION {[1..k -> names] : k \in 0..n}

(* n1 has up to two links, n2 one and n3 none. *)
Vaults ==
  {[n1 |-> [title |-> t[1], aliases |-> a[1], links |-> l1],
    n2 |-> [title |-> t[2], aliases |-> a[2], links |-> l2],
    n3 |-> [title |-> t[3], aliases |-> a[3], links |-> <<>>]] :
     t \in {"", "x"} \X {"", "x", "y"} \X {"", "y"}, a \in {{}, {"y"}} \X {{}, {"X"}} \X {{}, {"X"}},
     l1 \in LinkLists({"n3", "x", "X", "y"}, 2), l2 \in LinkLists({"n3", "X", "y"}, 1)}

AnyVault == {CHOOSE v \in Vaults : TRUE}
AnyDocument == Documents(1, {"text"})

Init ==
  \/ /\ part = "notes"
     /\ \/ NotesInit(Documents(MaxLines, Token), {"w1"})
        \/ NotesInit(Documents(2, {"fence", "text"}), Writer)
     /\ PolicyInit({{}}, {<<>>}) /\ BacklinksInit(AnyVault) /\ EventLogInit({}, {0})
  \/ /\ part = "policy"
     /\ PolicyInit(SUBSET {"[bad", "proj*"},
                   [{"daily.*", "*"} -> Overrides] \cup [{"*", "proj*", "[bad"} -> Overrides])
     /\ NotesInit(AnyDocument, {}) /\ BacklinksInit(AnyVault) /\ EventLogInit({}, {0})
  \/ /\ part = "backlinks"
     /\ BacklinksInit(Vaults)
     /\ NotesInit(AnyDocument, {}) /\ PolicyInit({{}}, {<<>>}) /\ EventLogInit({}, {0})
  \/ /\ part = "event log"
     /\ EventLogInit(Caller, 0..2)
     /\ NotesInit(AnyDocument, {}) /\ PolicyInit({{}}, {<<>>}) /\ BacklinksInit(AnyVault)

Next ==
  /\ UNCHANGED part
  /\ \/ part = "notes" /\ NotesNext /\ UNCHANGED <<policyVars, backlinkVars, eventVars>>
     \/ part = "policy" /\ PolicyNext /\ UNCHANGED <<noteVars, backlinkVars, eventVars>>
     \/ part = "backlinks" /\ BacklinksNext /\ UNCHANGED <<noteVars, policyVars, eventVars>>
     \/ part = "event log" /\ EventLogNext /\ UNCHANGED <<noteVars, policyVars, backlinkVars>>

Spec == Init /\ [][Next]_<<part, noteVars, policyVars, backlinkVars, eventVars>>
=============================================================================
