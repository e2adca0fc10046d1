------------------------------- MODULE Policy -------------------------------
(***************************************************************************)
(* PolicyFor of internal/config: defaults by the prefix of a namespace,    *)
(* excluded globs, and overrides that are kept in a Go map and so merged   *)
(* in any order.  A namespace is the sequence of its dotted parts.  Of the *)
(* optional fields that are merged alike, MaxLinks and MaxTags are kept.   *)
(***************************************************************************)
EXTENDS Naturals, Sequences

CONSTANTS
  Namespace,     \* the namespaces that are asked for
  Glob,          \* the patterns of the config file
  Matches,       \* the pairs <<glob, namespace>> that path.Match matches
  NoNamespace    \* nothing is asked

ASSUME MatchesAssumption == Matches \subseteq Glob \X Namespace
ASSUME NamespaceAssumption == NoNamespace \notin Namespace

VARIABLES
  excluded,      \* Config.ExcludedNamespaces, as a set
  overrides,     \* Config.NamespacePolicies: glob -> [links, tags, excluded]
  asked,         \* the namespace of the call in progress, or NoNamespace
  todo,          \* the globs the walk of the map has yet to come to
  policy         \* the policy so far

policyVars == <<excluded, overrides, asked, todo, policy>>

Matching(globs, ns) == {g \in globs : <<g, ns>> \in Matches}

(* The namespace is the prefix, or goes on with a dot after it. *)
HasPrefix(ns, prefix) == Len(prefix) <= Len(ns) /\ SubSeq(ns, 1, Len(prefix)) = prefix

DefaultLinks(ns) ==
  CASE HasPrefix(ns, <<"daily", "journal">>) -> 8
    [] HasPrefix(ns, <<"projects">>)         -> 12
    [] HasPrefix(ns, <<"reference">>)        -> 8
    [] HasPrefix(ns, <<"technology">>)       -> 10
    [] OTHER                                 -> 8

Default(ns) == [links |-> DefaultLinks(ns), tags |-> 10, excluded |-> FALSE]

NoPolicy == [links |-> 0, tags |-> 0, excluded |-> FALSE]

(* A loaded configuration, one of the given ones. *)
PolicyInit(excludedLists, overrideMaps) ==
  /\ excluded \in excludedLists
  /\ overrides \in overrideMaps
  /\ asked = NoNamespace /\ todo = {}
  /\ policy = NoPolicy

Ask(ns) ==
  /\ asked = NoNamespace
  /\ asked' = ns
  /\ todo' = DOMAIN overrides
  /\ policy' = [Default(ns) EXCEPT !.excluded = Matching(excluded, ns) # {}]
  /\ UNCHANGED <<excluded, overrides>>

OrElse(value, default) == IF value # 0 THEN value ELSE default

\* Mutant of Merged: the last override decides on exclusion.
MergedLast(p, o) ==
  [links |-> OrElse(o.links, p.links), tags |-> OrElse(o.tags, p.tags), excluded |-> o.excluded]

\* Mutant of Merged: a zero is taken for a value.
MergedZero(p, o) ==
  [links |-> o.links, tags |-> OrElse(o.tags, p.tags), excluded |-> p.excluded \/ o.excluded]

(* Zero values keep what is there. *)
Merged(p, o) ==
  [links |-> OrElse(o.links, p.links), tags |-> OrElse(o.tags, p.tags),
   excluded |-> p.excluded \/ o.excluded]

Visit(g) ==
  /\ g \in todo
  /\ todo' = todo \ {g}
  /\ policy' = IF <<g, asked>> \in Matches THEN Merged(policy, overrides[g]) ELSE policy
  /\ UNCHANGED <<excluded, overrides, asked>>

Answered == asked # NoNamespace /\ todo = {}

Return ==
  /\ Answered
  /\ asked' = NoNamespace /\ policy' = NoPolicy
  /\ UNCHANGED <<excluded, overrides, todo>>

PolicyNext == (\E ns \in Namespace : Ask(ns)) \/ (\E g \in Glob : Visit(g)) \/ Return
-----------------------------------------------------------------------------
(* Exclusion does not depend on the order of the map: a namespace is        *)
(* excluded exactly when some glob that matches it says so, in the list or  *)
(* in an override, and no other override lifts that.                        *)
ExclusionIsFinal ==
  Answered =>
    (policy.excluded <=>
       \/ Matching(excluded, asked) # {}
       \/ \E g \in Matching(DOMAIN overrides, asked) : overrides[g].excluded)

(* What the overrides say of a field, or else the default. *)
Justified(values, default) == IF values \ {0} = {} THEN {default} ELSE values \ {0}

(* The caps come from an override that matches and sets them, and from the  *)
(* default only when none does; so calls agree with each other wherever the *)
(* overrides that match do.                                                 *)
CapsAreJustified ==
  Answered =>
    LET matching == Matching(DOMAIN overrides, asked)
    IN  /\ policy.links \in Justified({overrides[g].links : g \in matching}, DefaultLinks(asked))
        /\ policy.tags \in Justified({overrides[g].tags : g \in matching}, 10)
=============================================================================
