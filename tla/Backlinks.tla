------------------------------ MODULE Backlinks ------------------------------
(***************************************************************************)
(* computeBacklinks of internal/index/backlinks.go, which Build calls with *)
(* the index locked.  It fills a map from paths, titles and aliases to     *)
(* entries, walking the entries in the order of a Go map, and then looks   *)
(* up every link; what it does not find it compares, ignoring case, with   *)
(* the base names and titles of the entries, in map order again.           *)
(***************************************************************************)
EXTENDS Naturals, Sequences, FiniteSets, Functions

CONSTANTS
  Note,          \* the paths of the notes
  Name,          \* what titles, aliases and links may be
  NoName,        \* no title
  BaseName,      \* path -> its last element without .md
  Folded         \* name -> the name that EqualFold knows it by

ASSUME NameAssumption == BaseName \in [Note -> Name] /\ Folded \in [Name -> Name]
ASSUME NoNameAssumption == NoName \notin Name \cup Note
ASSUME NoteAssumption == IsFiniteSet(Note)

Link == Note \cup Name

VARIABLES
  entries,       \* path -> [title, aliases, links]
  begun,         \* whether the counts have been reset
  unregistered,  \* the entries the first walk has yet to come to
  target,        \* targetToEntry: link -> the entry it leads to, or NoName
  unfollowed,    \* the links to be looked up, each <<path, position>>
  count          \* path -> BacklinkCount

backlinkVars == <<entries, begun, unregistered, target, unfollowed, count>>

LinkAt(x) == entries[x[1]].links[x[2]]
Places == UNION {{<<s, i>> : i \in DOMAIN entries[s].links} : s \in Note}

(* The entries of one of the given vaults, with counts from the cache. *)
BacklinksInit(vaults) ==
  /\ entries \in vaults
  /\ begun = FALSE
  /\ unregistered = Note
  /\ target = [l \in Link |-> NoName]
  /\ unfollowed = Places
  /\ count \in {[n \in Note |-> k] : k \in 0..1}

Zero == [n \in Note |-> 0]

Reset ==
  /\ ~begun
  /\ begun' = TRUE
  /\ count' = Zero
  /\ UNCHANGED <<entries, unregistered, target, unfollowed>>

Keys(e) == {e} \cup ({entries[e].title} \ {NoName}) \cup entries[e].aliases

Register(e) ==
  /\ begun /\ e \in unregistered
  /\ unregistered' = unregistered \ {e}
  /\ target' = [l \in Link |-> IF l \in Keys(e) THEN e ELSE target[l]]
  /\ UNCHANGED <<entries, begun, unfollowed, count>>

SameFolded(l, n) == l \in Name /\ n \in Name /\ Folded[l] = Folded[n]
Resembles(l, e) == SameFolded(l, BaseName[e]) \/ SameFolded(l, entries[e].title)

\* Mutant of Credited: the walk goes on after the first match.
CreditedAll(s, l) ==
  {IF target[l] \notin {NoName, s} THEN {target[l]} ELSE {e \in Note \ {s} : Resembles(l, e)}}

(* Which entries a link of s may be counted for: the one the map leads to,  *)
(* unless it is s, or the first similar one that the walk comes by.         *)
Credited(s, l) ==
  LET similar == {e \in Note \ {s} : Resembles(l, e)}
  IN  IF target[l] \notin {NoName, s} THEN {{target[l]}}
      ELSE IF similar = {} THEN {{}} ELSE {{e} : e \in similar}

(* The order does not matter here: each link sees the same map. *)
Follow ==
  /\ begun /\ unregistered = {} /\ unfollowed # {}
  /\ LET x == CHOOSE y \in unfollowed : TRUE
     IN  /\ unfollowed' = unfollowed \ {x}
         /\ \E C \in Credited(x[1], LinkAt(x)) :
              count' = [n \in Note |-> count[n] + IF n \in C THEN 1 ELSE 0]
  /\ UNCHANGED <<entries, begun, unregistered, target>>

BacklinksNext == Reset \/ (\E e \in Note : Register(e)) \/ Follow
-----------------------------------------------------------------------------
(* What a link may mean: a path, a title or an alias as it is written, or a *)
(* base name or title whatever its case.                                    *)
Means(l, e) == l \in Keys(e) \/ Resembles(l, e)

Counted == begun /\ unfollowed = {}

(* The links of other notes that can mean e, and those that mean only e. *)
Possible(e) == {x \in Places : x[1] # e /\ Means(LinkAt(x), e)}
Clear(e) == {x \in Possible(e) : \A n \in Note \ {e} : ~Means(LinkAt(x), n)}

Sources(links) == {x[1] : x \in links}

(* No other note has two links to e. *)
LinkedOnce(e) == \A x, y \in Possible(e) : x[1] = y[1] => x = y

(* However the maps are walked and whatever was cached, the count of a note *)
(* is the number of other entries that link to it: no more than those that  *)
(* may mean it and no less than those that can mean nothing else, so that   *)
(* it is exact where names are distinct.  No other note may link to it      *)
(* twice: the code would count it twice, although backlinks.go:6 and        *)
(* openspec/specs/note-index/spec.md:35 have other entries counted.         *)
CountsTellEntries ==
  Counted =>
    \A e \in Note : LinkedOnce(e) =>
      count[e] \in Cardinality(Sources(Clear(e)))..Cardinality(Sources(Possible(e)))

(* Two notes share no path, title or alias. *)
NamesAreDistinct == \A d, e \in Note : d # e => Keys(d) \cap Keys(e) = {}

(* No link is counted twice and none is lost, even if it could stand for    *)
(* the base names of several notes: every link that means another note is   *)
(* counted for exactly one, unless it is a name of its own note too.  Names *)
(* must be distinct, and no note may link to another one twice.             *)
EachLinkCountsOnce ==
  Counted /\ NamesAreDistinct /\ (\A e \in Note : LinkedOnce(e)) =>
    LET meaning == {x \in Places : \E e \in Note \ {x[1]} : Means(LinkAt(x), e)}
        foreign == {x \in meaning : ~Means(LinkAt(x), x[1])}
    IN  SumFunction(count) \in Cardinality(foreign)..Cardinality(meaning)

(* The two together: each count is right, and so is their sum. *)
CountsAreRight == CountsTellEntries /\ EachLinkCountsOnce
=============================================================================
