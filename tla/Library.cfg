SPECIFICATION Spec
CONSTANTS
  KeyOf <- MCKeyOf
  Alphabet <- MCAlphabet
  Suggestions = "ai"
  Change <- MCChange
  Writer = {"w1", "w2"}
  Inode = {i1, i2, i3}
  None = None
  MaxLines = 4
  Namespace <- MCNamespace
  Glob <- MCGlob
  Matches <- MCMatches
  NoNamespace = NoNamespace
  Note = {"n1", "n2", "n3"}
  Name = {"x", "X", "y"}
  NoName = ""
  BaseName <- MCBaseName
  Folded <- MCFolded
  Caller = {g1, g2}
  Day = 1
  MaxTime = 4
  MaxEvents = 3
  NoCall = NoCall
INVARIANTS
  NotesTypeOK
  NoteIsWhole
  WrittenIsReadBack
  SecondWriteIsStable
  HashSurvivesSuggestions
  ExclusionIsFinal
  CapsAreJustified
  CountsAreRight
  RetentionIsKept
CHECK_DEADLOCK FALSE
