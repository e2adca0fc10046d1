-------------------------------- MODULE Notes --------------------------------
(***************************************************************************)
(* internal/notes: a markdown file is parsed into front matter and body,   *)
(* changed, and written back through path.tmp and a rename.                *)
(*                                                                         *)
(* A line is a token and whether a carriage return ends it.  The token of  *)
(* a front matter line stands for its key and its value; a text line is    *)
(* any other one, and a long line is one the scanner has no room for.  A   *)
(* document is its lines and whether the last one ends in a newline.       *)
(***************************************************************************)
EXTENDS Naturals, Sequences, FiniteSets

CONSTANTS
  KeyOf,         \* what key a front matter line has: token -> key
  Alphabet,      \* the keys in the order sort.Strings puts them, as a sequence
  Suggestions,   \* the line of the key ai_suggestions
  Change,        \* the sets of front matter lines a caller may set
  Writer,        \* who reads, changes and writes the note
  Inode,         \* the files path and path.tmp may be
  None           \* no file, no document, no note

KeyLine == DOMAIN KeyOf
Key == {KeyOf[t] : t \in KeyLine}
Token == KeyLine \cup {"fence", "text", "long"}
Line == [tok : Token, cr : BOOLEAN]
Document == [lines : Seq(Line), ended : BOOLEAN]

ASSUME TokenAssumption == {"fence", "text", "long"} \cap KeyLine = {}
ASSUME SuggestionsAssumption == Suggestions \in KeyLine
ASSUME ChangeAssumption == Change \subseteq SUBSET KeyLine
ASSUME AlphabetAssumption == Alphabet \in Seq(Key) /\ \A k \in Key : \E i \in DOMAIN Alphabet : Alphabet[i] = k
ASSUME InodeAssumption == Inode # {}
ASSUME NoneAssumption == None \notin Inode \cup Document

Elems(s) == {s[i] : i \in DOMAIN s}
Tokens(ls) == [i \in DOMAIN ls |-> ls[i].tok]
Lowest(S) == CHOOSE i \in S : \A j \in S : i <= j

(* The elements of s that are in S, in their order: SelectSeq, written as a *)
(* recursive function because the prover cannot look into SelectSeq.        *)
Only(s, S) ==
  LET only[i \in 0..Len(s)] ==
        IF i = 0 THEN <<>>
        ELSE IF s[i] \in S THEN Append(only[i - 1], s[i]) ELSE only[i - 1]
  IN  only[Len(s)]

AIKey == KeyOf[Suggestions]
AFence == <<[tok |-> "fence", cr |-> FALSE]>>
Empty == <<>>
-----------------------------------------------------------------------------
(***************************************************************************)
(* Parse.                                                                  *)
(***************************************************************************)

(* bufio.ScanLines drops carriage returns, and the scan ends without an     *)
(* error where a line is too long.                                          *)
Scanned(ls) ==
  LET tooLong == {i \in DOMAIN ls : ls[i].tok = "long"}
      n       == IF tooLong = {} THEN Len(ls) ELSE Lowest(tooLong) - 1
  IN  [i \in 1..n |-> [ls[i] EXCEPT !.cr = FALSE]]

Fences(ls) == {i \in DOMAIN ls : ls[i].tok = "fence"}
Opening(ls) == Lowest(Fences(ls))
Closing(ls) == Lowest(Fences(ls) \ {Opening(ls)})

HasFrontmatter(doc) == Cardinality(Fences(Scanned(doc.lines))) >= 2

\* Mutant of Decoded: a key that is there twice is dropped.
DecodedOnce(ls) ==
  [k \in {KeyOf[ls[i].tok] : i \in {j \in DOMAIN ls :
            \A h \in DOMAIN ls \ {j} : KeyOf[ls[h].tok] # KeyOf[ls[j].tok]}} |->
     ls[CHOOSE i \in DOMAIN ls : KeyOf[ls[i].tok] = k].tok]

(* The keys and values of the lines between the fences: a key that is there *)
(* twice keeps its last value.                                              *)
Decoded(ls) ==
  [k \in {KeyOf[ls[i].tok] : i \in DOMAIN ls} |->
     ls[CHOOSE i \in DOMAIN ls : KeyOf[ls[i].tok] = k
          /\ \A j \in (i + 1)..Len(ls) : KeyOf[ls[j].tok] # k].tok]

(* What is not a mapping, such as the text between two rules, decodes into  *)
(* no keys; a mapping with text in it is an error.                          *)
Parses(doc) ==
  ~HasFrontmatter(doc) \/
    LET ls == Scanned(doc.lines)
        block == {ls[i].tok : i \in (Opening(ls) + 1)..(Closing(ls) - 1)}
    IN  block \subseteq KeyLine \/ block \cap KeyLine = {}

Parsed(doc) ==
  IF ~HasFrontmatter(doc)
  THEN [pre |-> Empty, fm |-> Empty, order |-> Empty, body |-> doc]
  ELSE LET ls    == Scanned(doc.lines)
           block == SubSeq(ls, Opening(ls) + 1, Closing(ls) - 1)
           keys  == IF Elems(Tokens(block)) \subseteq KeyLine THEN block ELSE Empty
       IN  [pre   |-> SubSeq(ls, 1, Opening(ls) - 1),
            fm    |-> Decoded(keys),
            order |-> [i \in DOMAIN keys |-> KeyOf[keys[i].tok]],
            body  |-> [lines |-> SubSeq(ls, Closing(ls) + 1, Len(ls)), ended |-> TRUE]]
-----------------------------------------------------------------------------
(***************************************************************************)
(* marshal and ContentHash.                                                *)
(***************************************************************************)

(* Sequences with the elements of S, in any order: a Go map is walked. *)
AnyOrder(S) == {s \in [1..Cardinality(S) -> S] : Elems(s) = S}

\* Mutant of Leading: suggestions stay where they were.
LeadingAll(note) == note.order

(* The keys as they were read, a repeated one as often as it was. *)
Leading(note) == Only(note.order, Key \ {AIKey})

(* The orders in which the keys may be written. *)
KeyOrders(note) ==
  {Leading(note) \o s \o (IF AIKey \in DOMAIN note.fm THEN <<AIKey>> ELSE <<>>) :
     s \in AnyOrder(DOMAIN note.fm \ (Elems(note.order) \cup {AIKey}))}

\* Mutant of Framed: nothing before the opening fence is kept.
FramedOnly(note, keys) == AFence \o keys \o AFence \o note.body.lines

Framed(note, keys) == note.pre \o AFence \o keys \o AFence \o note.body.lines

(* What marshal may return. *)
Marshalled(note) ==
  {[lines |-> Framed(note, [i \in DOMAIN order |-> [tok |-> note.fm[order[i]], cr |-> FALSE]]),
    ended |-> note.body.lines = <<>> \/ note.body.ended] : order \in KeyOrders(note)}

\* Mutant of Hashed: the suggestions are hashed.
HashedAll(note) == DOMAIN note.fm

Hashed(note) == DOMAIN note.fm \ {AIKey}

(* The bytes ContentHash sums: the sorted front matter, then the body. *)
ContentHash(note) ==
  LET keys == Only(Alphabet, Hashed(note))
  IN  [lines |-> [i \in DOMAIN keys |-> [tok |-> note.fm[keys[i]], cr |-> FALSE]]
                   \o note.body.lines,
       ended |-> note.body.ended]
-----------------------------------------------------------------------------
VARIABLES
  file,          \* the inode of path
  tmp,           \* the inode of path.tmp, or None
  content,       \* inode -> document, or None
  writer,        \* writer -> [stage, from, note, buf, fd]
  shared         \* history: whether two Writes were in progress at once

noteVars == <<file, tmp, content, writer, shared>>

Blank == [lines |-> Empty, ended |-> TRUE]
Absent == [stage |-> "done", from |-> None, note |-> None, buf |-> None, fd |-> None]

(* The note is one of the given documents, the given writers will run. *)
NotesInit(documents, writers) ==
  /\ file = CHOOSE i \in Inode : TRUE
  /\ \E d \in documents : content = [i \in Inode |-> IF i = file THEN d ELSE None]
  /\ tmp = None
  /\ writer = [w \in Writer |-> [Absent EXCEPT !.stage = IF w \in writers THEN "start" ELSE "done"]]
  /\ shared = FALSE

At(w, stage) == writer[w].stage = stage

(* ParseFile; an error ends the work on the note. *)
Read(w) ==
  /\ At(w, "start")
  /\ LET doc == content[file]
     IN  writer' = [writer EXCEPT ![w] =
           IF Parses(doc) THEN [@ EXCEPT !.stage = "parsed", !.from = doc, !.note = Parsed(doc)]
           ELSE Absent]
  /\ UNCHANGED <<file, tmp, content, shared>>

(* The caller sets keys, as the annotator sets ai_suggestions. *)
SetKeys(w, ts) ==
  /\ At(w, "parsed")
  /\ writer' = [writer EXCEPT ![w].stage = "changed",
       ![w].note.fm = [k \in DOMAIN @ \cup {KeyOf[t] : t \in ts} |->
                         IF \E t \in ts : KeyOf[t] = k THEN CHOOSE t \in ts : KeyOf[t] = k ELSE @[k]]]
  /\ UNCHANGED <<file, tmp, content, shared>>

Writing(w) == writer[w].stage \in {"opened", "filled", "cleanup"}

\* Mutant of Target: the note itself is opened.
InPlace(i) == i = file

(* os.WriteFile opens path.tmp, a new file or the one that is there. *)
Target(i) == i = tmp \/ (tmp = None /\ content[i] = None)

(* marshal; path.tmp is created or truncated. *)
OpenTmp(w) ==
  /\ At(w, "parsed") \/ At(w, "changed")
  /\ \E i \in Inode, buf \in Marshalled(writer[w].note) :
       /\ Target(i)
       /\ tmp' = i
       /\ content' = [content EXCEPT ![i] = Blank]
       /\ writer' = [writer EXCEPT ![w].stage = "opened", ![w].fd = i, ![w].buf = buf]
  /\ shared' = (shared \/ \E v \in Writer \ {w} : Writing(v))
  /\ UNCHANGED file

Fill(w) ==
  /\ At(w, "opened")
  /\ content' = [content EXCEPT ![writer[w].fd] = writer[w].buf]
  /\ writer' = [writer EXCEPT ![w].stage = "filled"]
  /\ UNCHANGED <<file, tmp, shared>>

Rename(w) ==
  /\ At(w, "filled") /\ tmp # None
  /\ file' = tmp /\ tmp' = None
  /\ writer' = [writer EXCEPT ![w] = Absent]
  /\ UNCHANGED <<content, shared>>

(* The other writer has renamed path.tmp, or the directory refuses. *)
RenameFails(w) ==
  /\ At(w, "filled")
  /\ writer' = [writer EXCEPT ![w].stage = "cleanup"]
  /\ UNCHANGED <<file, tmp, content, shared>>

Cleanup(w) ==
  /\ At(w, "cleanup")
  /\ tmp' = None
  /\ writer' = [writer EXCEPT ![w] = Absent]
  /\ UNCHANGED <<file, content, shared>>

(* The process ends, or the write of path.tmp fails: the file stays. *)
GiveUp(w) ==
  /\ ~At(w, "done")
  /\ writer' = [writer EXCEPT ![w] = Absent]
  /\ UNCHANGED <<file, tmp, content, shared>>

WriterStep(w) ==
  \/ Read(w) \/ (\E ts \in Change : SetKeys(w, ts)) \/ OpenTmp(w) \/ Fill(w)
  \/ Rename(w) \/ RenameFails(w) \/ Cleanup(w) \/ GiveUp(w)

NotesNext == \E w \in Writer : WriterStep(w)
-----------------------------------------------------------------------------
(* Every variable keeps its type; a writer has what it needs at its stage,  *)
(* and a note's order names keys it has.                                    *)
NotesTypeOK ==
  /\ file \in Inode /\ tmp \in Inode \cup {None}
  /\ \A i \in Inode : content[i] # None => content[i] \in Document
  /\ \A w \in Writer :
       /\ Writing(w) => writer[w].fd \in Inode /\ writer[w].buf \in Document
       /\ writer[w].note # None =>
            Elems(writer[w].note.order) \subseteq DOMAIN writer[w].note.fm
  /\ shared \in BOOLEAN

(* "Partial writes never corrupt the original": whatever a writer was doing *)
(* when it failed or died, and whatever its predecessors left in path.tmp,  *)
(* the note is a complete one, as long as no two Writes of it overlap.      *)
NoteIsWhole == ~shared => content[file] \notin {None, Blank}

(* What lies before and after the front matter, read off the tokens. *)
Around(ts) ==
  LET fences == {i \in DOMAIN ts : ts[i] = "fence"}
      first  == Lowest(fences)
      second == Lowest(fences \ {first})
  IN  IF Cardinality(fences) < 2 THEN <<Empty, ts>>
      ELSE <<SubSeq(ts, 1, first - 1), SubSeq(ts, second + 1, Len(ts))>>

Short(doc) == "long" \notin Elems(Tokens(doc.lines))

(* What Write writes of a note without over-long lines is what Parse reads  *)
(* back: the same keys with the same values, and around them the lines that *)
(* were around them before, whatever fences, keys and repeated keys the     *)
(* file had.                                                                *)
WrittenIsReadBack ==
  \A w \in Writer : Writing(w) /\ Short(writer[w].from) =>
    /\ Parses(writer[w].buf)
    /\ Parsed(writer[w].buf).fm = writer[w].note.fm
    /\ Around(Tokens(writer[w].buf.lines)) = Around(Tokens(writer[w].from.lines))

(* The document with plain line ends. *)
Normal(doc) ==
  [lines |-> [i \in DOMAIN doc.lines |-> [doc.lines[i] EXCEPT !.cr = FALSE]], ended |-> TRUE]

PlainBody(doc) == HasFrontmatter(doc) \/ doc = Normal(doc)

(* A note that was written once is written byte for byte the same again:    *)
(* the order of the keys is not left to the map a second time, and nothing  *)
(* moves or gets lost any more.  The file must have had front matter or     *)
(* plain line ends.  This is less than is specified: "the resulting file    *)
(* bytes are identical to the original file bytes" after the first write    *)
(* (openspec/specs/note-frontmatter-parsing/spec.md:27) holds in the code   *)
(* only of notes that look already as marshal writes them.                  *)
SecondWriteIsStable ==
  \A w \in Writer :
    Writing(w) /\ Short(writer[w].from) /\ PlainBody(writer[w].from) =>
      Marshalled(Parsed(writer[w].buf)) = {writer[w].buf}

OnlySuggested(w) ==
  \A k \in DOMAIN writer[w].note.fm \ {AIKey} :
    k \in DOMAIN Parsed(writer[w].from).fm /\ Parsed(writer[w].from).fm[k] = writer[w].note.fm[k]

(* "Daemon-generated annotation writes do not trigger re-processing": a     *)
(* note that only got suggestions has the hash it had before, provided it   *)
(* had front matter or plain line ends.                                     *)
HashSurvivesSuggestions ==
  \A w \in Writer :
    Writing(w) /\ Short(writer[w].from) /\ OnlySuggested(w) /\ PlainBody(writer[w].from) =>
    ContentHash(Parsed(writer[w].buf)) = ContentHash(Parsed(writer[w].from))
=============================================================================
