-------------------------- MODULE LoadOrInitProofs --------------------------
(***************************************************************************)
(* The safety of LoadOrInit for every number of processes, every length of *)
(* the default and every number of edits.                                  *)
(***************************************************************************)
EXTENDS LoadOrInit, TLAPS

-----------------------------------------------------------------------------
(* The inductive invariant.                                                *)

\* The texts of the file and of the readers, chunk by chunk.
InPlace(text) == \A i \in DOMAIN text : text[i] \in {i, Hole, User}

Places ==
  /\ InPlace(file)
  /\ \A p \in Proc : InPlace(source[p])
  /\ \A p \in Proc : pc[p] \in Reads => Len(source[p]) = offset[p]

\* Who has come past the first open has made or found a file; who found one
\* when it began writes none.
Made == {"writing", "reopening", "rereading", "reading", "parsing", "loaded", "parse_error"}

Creation ==
  /\ ~exists => file = <<>>
  /\ \A p \in Proc : pc[p] \in Made \/ p \in foundFile => exists
  /\ \A p \in foundFile :
       pc[p] \notin Initialising \cup {"idle", "reopening", "rereading"}
  /\ stopped \/ \A p \in Proc : pc[p] \notin {"failed", "killed"}

\* p is writing, and what it has written is there.
Upholds(p) ==
  /\ pc[p] = "writing"
  /\ \A i \in 1 .. offset[p] : i \in DOMAIN file /\ file[i] = i

\* Once a process has made the file it is whole, or some writer is making it so.
Converging ==
  (Untouched /\ exists /\ \E p \in Proc \ foundFile : pc[p] # "idle") =>
    file = Default \/ \E p \in Proc : Upholds(p)

Lone(p) ==
  /\ p \notin foundFile
  /\ \A q \in Proc \ {p} : pc[q] = "idle" \/ q \in foundFile

\* What a process is at that is alone in finding no file.
Alone(p) ==
  /\ pc[p] \in {"opening", "missing", "creating"} => ~exists
  /\ pc[p] # "reading"
  /\ pc[p] = "writing" => Len(file) = offset[p] /\ Upholds(p)
  /\ pc[p] \in {"reopening", "rereading"} => file = Default
  /\ pc[p] = "rereading" => \A i \in 1 .. offset[p] : source[p][i] = i
  /\ pc[p] \in {"parsing", "loaded", "parse_error"} => source[p] = Default

Loneliness == \A p \in Proc : Untouched /\ Lone(p) => Alone(p)

IInv == TypeOK /\ Places /\ Creation /\ Converging /\ Loneliness

-----------------------------------------------------------------------------
(* Texts.                                                                  *)

LEMMA TextShape ==
  ASSUME NEW text
  PROVE  text \in Texts <=>
           \E n \in 0 .. Size : text \in [1 .. n -> Chunk]
BY DEF Texts

LEMMA TextFacts ==
  ASSUME NEW text \in Texts
  PROVE  /\ text \in Seq(Chunk)
         /\ Len(text) \in 0 .. Size
         /\ DOMAIN text = 1 .. Len(text)
         /\ \A i \in 1 .. Len(text) : text[i] \in Chunk
<1>1. PICK n \in 0 .. Size : text \in [1 .. n -> Chunk]
  BY TextShape
<1>2. n \in Nat
  BY <1>1, SizeAssumption
<1>3. text \in Seq(Chunk) /\ DOMAIN text = 1 .. n
  BY <1>1, <1>2
<1>4. Len(text) = n
  BY <1>2, <1>3
<1> QED
  BY <1>1, <1>3, <1>4

LEMMA EmptyText == <<>> \in Texts /\ Len(<<>>) = 0
<1>1. <<>> \in [1 .. 0 -> Chunk]
  OBVIOUS
<1>2. 0 \in 0 .. Size
  BY SizeAssumption
<1>3. <<>> \in Texts
  BY <1>1, <1>2, TextShape
<1> QED
  BY <1>3

LEMMA UserText == <<User>> \in Texts
<1>1. User \in Chunk /\ 1 \in 0 .. Size
  BY SizeAssumption DEF User, Chunk
<1>2. <<User>> \in [1 .. 1 -> Chunk]
  BY <1>1
<1> QED
  BY <1>1, <1>2, TextShape

\* The default is a text, and the only one that has each chunk in its place.
LEMMA DefaultFacts ==
  /\ Default \in Texts /\ Len(Default) = Size
  /\ \A i \in 1 .. Size : Default[i] = i
  /\ \A text \in Texts :
       (\A i \in 1 .. Size : i \in DOMAIN text /\ text[i] = i) => text = Default
<1>1. Default \in [1 .. Size -> Chunk]
  BY SizeAssumption DEF Default, Chunk
<1>2. Default \in Texts
  BY <1>1, TextShape, SizeAssumption
<1>3. Len(Default) = Size
  BY <1>1, <1>2, TextFacts, SizeAssumption
<1>4. ASSUME NEW text \in Texts,
             \A i \in 1 .. Size : i \in DOMAIN text /\ text[i] = i
      PROVE  text = Default
  <2>1. Len(text) = Size
    BY <1>4, TextFacts, SizeAssumption
  <2>2. text \in [1 .. Size -> Chunk]
    BY <2>1, <1>4, TextFacts
  <2> QED
    BY <2>2, <1>1, <1>4 DEF Default
<1> QED
  BY <1>2, <1>3, <1>4 DEF Default

\* A chunk written at i.
LEMMA OverlayFacts ==
  ASSUME NEW text \in Texts, NEW i \in 1 .. Size, NEW chunk \in Chunk
  PROVE  /\ Overlay(text, i, chunk) \in Texts
         /\ Len(Overlay(text, i, chunk)) =
              IF i > Len(text) THEN i ELSE Len(text)
         /\ DOMAIN Overlay(text, i, chunk) =
              1 .. (IF i > Len(text) THEN i ELSE Len(text))
         /\ Overlay(text, i, chunk)[i] = chunk
         /\ \A j \in DOMAIN text \ {i} : Overlay(text, i, chunk)[j] = text[j]
         /\ \A j \in DOMAIN Overlay(text, i, chunk) \ (DOMAIN text \cup {i}) :
              Overlay(text, i, chunk)[j] = Hole
<1> DEFINE n == IF i > Len(text) THEN i ELSE Len(text)
           over == Overlay(text, i, chunk)
<1>1. /\ Len(text) \in 0 .. Size /\ DOMAIN text = 1 .. Len(text)
      /\ \A j \in 1 .. Len(text) : text[j] \in Chunk
  BY TextFacts
<1>2. n \in 0 .. Size
  BY <1>1, SizeAssumption
<1>3. over = [j \in 1 .. n |->
                IF j = i THEN chunk ELSE IF j <= Len(text) THEN text[j] ELSE Hole]
  BY DEF Overlay
<1>4. Hole \in Chunk
  BY SizeAssumption DEF Hole, Chunk
<1>5. over \in [1 .. n -> Chunk]
  BY <1>1, <1>2, <1>3, <1>4
<1>6. over \in Texts
  BY <1>2, <1>5, TextShape
<1>7. Len(over) = n
  BY <1>2, <1>5, <1>6, TextFacts, SizeAssumption
<1>8. i \in 1 .. n /\ DOMAIN text \subseteq 1 .. n
  BY <1>1, <1>2, SizeAssumption
<1> HIDE DEF over
<1>9. /\ over[i] = chunk
      /\ \A j \in DOMAIN text \ {i} : over[j] = text[j]
      /\ \A j \in DOMAIN over \ (DOMAIN text \cup {i}) : over[j] = Hole
  BY <1>1, <1>2, <1>3, <1>8, SizeAssumption
<1>10. DOMAIN over = 1 .. n
  BY <1>3
<1> QED
  BY <1>6, <1>7, <1>9, <1>10 DEF over

\* A chunk read.
LEMMA AppendFacts ==
  ASSUME NEW text \in Texts, NEW chunk \in Chunk, Len(text) < Size
  PROVE  /\ Append(text, chunk) \in Texts
         /\ Len(Append(text, chunk)) = Len(text) + 1
         /\ \A j \in 1 .. Len(text) : Append(text, chunk)[j] = text[j]
         /\ Append(text, chunk)[Len(text) + 1] = chunk
<1>1. /\ text \in Seq(Chunk) /\ Len(text) \in 0 .. Size
      /\ \A j \in 1 .. Len(text) : text[j] \in Chunk
  BY TextFacts
<1>2. /\ Append(text, chunk) \in Seq(Chunk)
      /\ Len(Append(text, chunk)) = Len(text) + 1
      /\ \A j \in 1 .. Len(text) : Append(text, chunk)[j] = text[j]
      /\ Append(text, chunk)[Len(text) + 1] = chunk
  BY <1>1
<1>3. Append(text, chunk) \in [1 .. Len(text) + 1 -> Chunk]
  <2> DEFINE longer == Append(text, chunk)
  <2> HIDE DEF longer
  <2>1. longer \in Seq(Chunk) /\ Len(longer) = Len(text) + 1
    BY <1>2 DEF longer
  <2>2. longer \in [1 .. Len(longer) -> Chunk]
    BY <2>1
  <2> QED
    BY <2>1, <2>2 DEF longer
<1>4. Len(text) + 1 \in 0 .. Size
  BY <1>1, SizeAssumption
<1> QED
  BY <1>2, <1>3, <1>4, TextShape

-----------------------------------------------------------------------------
(* Types.                                                                  *)

LEMMA TypeInit == Init => TypeOK
<1> SUFFICES ASSUME Init PROVE TypeOK
  OBVIOUS
<1>1. 0 \in 0 .. Size /\ 0 \in 0 .. MaxEdits
  BY SizeAssumption, MaxEditsAssumption
<1>2. file \in Texts
  BY EmptyText, UserText DEF Init
<1>3. offset \in [Proc -> 0 .. Size] /\ source \in [Proc -> Texts]
  BY <1>1, EmptyText DEF Init
<1> QED
  BY <1>1, <1>2, <1>3 DEF Init, TypeOK

LEMMA TypeStep ==
  ASSUME TypeOK, Places, [Next]_vars
  PROVE  TypeOK'
<1> USE DEF TypeOK, Goto, Running, Reads, Initialising, Ends
<1>1. ASSUME NEW p \in Proc, Begin(p) PROVE TypeOK'
  BY <1>1 DEF Begin
<1>2. ASSUME NEW p \in Proc, Open(p) PROVE TypeOK'
  BY <1>2, EmptyText, SizeAssumption DEF Open
<1>3. ASSUME NEW p \in Proc, OpenMissing(p) PROVE TypeOK'
  BY <1>3 DEF OpenMissing
<1>4. ASSUME NEW p \in Proc, ReadChunk(p) PROVE TypeOK'
  <2>1. /\ source[p] \in Texts /\ file \in Texts
        /\ Len(source[p]) = offset[p] /\ offset[p] < Len(file)
        /\ offset[p] \in 0 .. Size
    BY <1>4 DEF ReadChunk, Places
  <2>2. Len(file) \in 0 .. Size /\ file[offset[p] + 1] \in Chunk
    BY <2>1, TextFacts, SizeAssumption
  <2>3. Append(source[p], file[offset[p] + 1]) \in Texts
    BY <2>1, <2>2, AppendFacts, SizeAssumption
  <2>4. offset[p] + 1 \in 0 .. Size
    BY <2>1, <2>2, SizeAssumption
  <2>5. source' \in [Proc -> Texts] /\ offset' \in [Proc -> 0 .. Size]
    BY <1>4, <2>3, <2>4 DEF ReadChunk
  <2> QED
    BY <1>4, <2>5 DEF ReadChunk
<1>5. ASSUME NEW p \in Proc, ReadEnd(p) PROVE TypeOK'
  BY <1>5 DEF ReadEnd
<1>6. ASSUME NEW p \in Proc, Parse(p) PROVE TypeOK'
  BY <1>6 DEF Parse
<1>7. ASSUME NEW p \in Proc, CreateDir(p) PROVE TypeOK'
  BY <1>7 DEF CreateDir
<1>8. ASSUME NEW p \in Proc, Create(p) PROVE TypeOK'
  BY <1>8, EmptyText, SizeAssumption DEF Create
<1>9. ASSUME NEW p \in Proc, WriteChunk(p) PROVE TypeOK'
  <2>1. offset[p] + 1 \in 1 .. Size
    BY <1>9, SizeAssumption DEF WriteChunk
  <2>2. Default[offset[p] + 1] \in Chunk
    BY <2>1, DefaultFacts, SizeAssumption DEF Chunk
  <2>3. file' \in Texts
    BY <1>9, <2>1, <2>2, OverlayFacts DEF WriteChunk
  <2>4. offset' \in [Proc -> 0 .. Size]
    BY <1>9, <2>1, SizeAssumption DEF WriteChunk
  <2> QED
    BY <1>9, <2>3, <2>4 DEF WriteChunk
<1>10. ASSUME NEW p \in Proc, WriteEnd(p) PROVE TypeOK'
  BY <1>10 DEF WriteEnd
<1>11. ASSUME NEW p \in Proc, Fail(p) PROVE TypeOK'
  BY <1>11 DEF Fail
<1>12. ASSUME NEW p \in Proc, Kill(p) PROVE TypeOK'
  BY <1>12 DEF Kill
<1>13. ASSUME Edit PROVE TypeOK'
  BY <1>13, EmptyText, UserText, MaxEditsAssumption DEF Edit
<1>14. ASSUME UNCHANGED vars PROVE TypeOK'
  BY <1>14 DEF vars
<1> QED
  BY <1>1, <1>2, <1>3, <1>4, <1>5, <1>6, <1>7, <1>8, <1>9, <1>10, <1>11,
     <1>12, <1>13, <1>14 DEF Next, Step

-----------------------------------------------------------------------------
(* Every chunk in its place.                                               *)

LEMMA PlacesStep ==
  ASSUME TypeOK, Places, [Next]_vars
  PROVE  Places'
<1> USE DEF Goto, Reads
<1>1. ASSUME NEW p \in Proc, Begin(p) PROVE Places'
  BY <1>1 DEF Begin, Places, TypeOK, InPlace
<1>2. ASSUME NEW p \in Proc, Open(p) PROVE Places'
  BY <1>2, EmptyText DEF Open, Places, TypeOK, InPlace
<1>3. ASSUME NEW p \in Proc, OpenMissing(p) PROVE Places'
  BY <1>3 DEF OpenMissing, Places, TypeOK, InPlace
<1>4. ASSUME NEW p \in Proc, ReadChunk(p) PROVE Places'
  <2> DEFINE longer == Append(source[p], file[offset[p] + 1])
  <2>1. /\ source[p] \in Texts /\ file \in Texts
        /\ Len(source[p]) = offset[p] /\ offset[p] < Len(file)
        /\ offset[p] \in 0 .. Size
    BY <1>4 DEF ReadChunk, Places, TypeOK
  <2>2. /\ Len(file) \in 0 .. Size
        /\ offset[p] + 1 \in DOMAIN file
        /\ file[offset[p] + 1] \in Chunk
    BY <2>1, TextFacts, SizeAssumption
  <2>3. /\ longer \in Texts
        /\ Len(longer) = offset[p] + 1
        /\ \A j \in 1 .. offset[p] : longer[j] = source[p][j]
        /\ longer[offset[p] + 1] = file[offset[p] + 1]
    BY <2>1, <2>2, AppendFacts, SizeAssumption
  <2> HIDE DEF longer
  <2>4. DOMAIN longer = 1 .. offset[p] + 1 /\ DOMAIN source[p] = 1 .. offset[p]
    BY <2>1, <2>3, TextFacts
  <2>5. InPlace(longer)
    BY <2>1, <2>2, <2>3, <2>4 DEF Places, InPlace
  <2>6. source' = [source EXCEPT ![p] = longer]
    BY <1>4 DEF ReadChunk, longer
  <2> QED
    BY <1>4, <2>3, <2>5, <2>6 DEF ReadChunk, Places, TypeOK
<1>5. ASSUME NEW p \in Proc, ReadEnd(p) PROVE Places'
  BY <1>5 DEF ReadEnd, Places, TypeOK, InPlace
<1>6. ASSUME NEW p \in Proc, Parse(p) PROVE Places'
  BY <1>6 DEF Parse, Places, TypeOK, InPlace
<1>7. ASSUME NEW p \in Proc, CreateDir(p) PROVE Places'
  BY <1>7 DEF CreateDir, Places, TypeOK, InPlace
<1>8. ASSUME NEW p \in Proc, Create(p) PROVE Places'
  BY <1>8, EmptyText DEF Create, Places, TypeOK, InPlace
<1>9. ASSUME NEW p \in Proc, WriteChunk(p) PROVE Places'
  <2> DEFINE i == offset[p] + 1
  <2>1. i \in 1 .. Size /\ file \in Texts /\ Default[i] = i /\ i \in Chunk
    BY <1>9, SizeAssumption, DefaultFacts DEF WriteChunk, TypeOK, Chunk
  <2>2. file' = Overlay(file, i, i)
    BY <1>9, <2>1 DEF WriteChunk
  <2> HIDE DEF i
  <2>3. \A j \in DOMAIN file' :
          \/ j = i /\ file'[j] = i
          \/ j \in DOMAIN file /\ file'[j] = file[j]
          \/ file'[j] = Hole
    BY <2>1, <2>2, OverlayFacts
  <2>4. InPlace(file')
    BY <2>3 DEF Places, InPlace
  <2>5. UNCHANGED <<pc, source>> /\ pc[p] = "writing"
    BY <1>9 DEF WriteChunk
  <2>6. \A q \in Proc : q # p => offset'[q] = offset[q]
    BY <1>9 DEF WriteChunk, TypeOK
  <2> QED
    BY <2>4, <2>5, <2>6 DEF Places, InPlace
<1>10. ASSUME NEW p \in Proc, WriteEnd(p) PROVE Places'
  BY <1>10 DEF WriteEnd, Places, TypeOK, InPlace
<1>11. ASSUME NEW p \in Proc, Fail(p) PROVE Places'
  BY <1>11 DEF Fail, Places, TypeOK, InPlace
<1>12. ASSUME NEW p \in Proc, Kill(p) PROVE Places'
  BY <1>12 DEF Kill, Places, TypeOK, InPlace
<1>13. ASSUME Edit PROVE Places'
  <2>1. InPlace(<<>>) /\ InPlace(<<User>>)
    BY DEF InPlace
  <2> QED
    BY <1>13, <2>1 DEF Edit, Places, InPlace
<1>14. ASSUME UNCHANGED vars PROVE Places'
  BY <1>14 DEF vars, Places, InPlace
<1> QED
  BY <1>1, <1>2, <1>3, <1>4, <1>5, <1>6, <1>7, <1>8, <1>9, <1>10, <1>11,
     <1>12, <1>13, <1>14 DEF Next, Step

-----------------------------------------------------------------------------
(* Who has made the file.                                                  *)

LEMMA CreationStep ==
  ASSUME TypeOK, Creation, [Next]_vars
  PROVE  Creation'
<1> USE DEF Goto, Reads, Initialising, Running, Made, Creation, TypeOK
<1>1. ASSUME NEW p \in Proc, Begin(p) PROVE Creation'
  BY <1>1 DEF Begin
<1>2. ASSUME NEW p \in Proc, Open(p) PROVE Creation'
  BY <1>2 DEF Open
<1>3. ASSUME NEW p \in Proc, OpenMissing(p) PROVE Creation'
  BY <1>3 DEF OpenMissing
<1>4. ASSUME NEW p \in Proc, ReadChunk(p) PROVE Creation'
  BY <1>4 DEF ReadChunk
<1>5. ASSUME NEW p \in Proc, ReadEnd(p) PROVE Creation'
  BY <1>5 DEF ReadEnd
<1>6. ASSUME NEW p \in Proc, Parse(p) PROVE Creation'
  BY <1>6 DEF Parse
<1>7. ASSUME NEW p \in Proc, CreateDir(p) PROVE Creation'
  BY <1>7 DEF CreateDir
<1>8. ASSUME NEW p \in Proc, Create(p) PROVE Creation'
  BY <1>8 DEF Create
<1>9. ASSUME NEW p \in Proc, WriteChunk(p) PROVE Creation'
  BY <1>9 DEF WriteChunk
<1>10. ASSUME NEW p \in Proc, WriteEnd(p) PROVE Creation'
  BY <1>10 DEF WriteEnd
<1>11. ASSUME NEW p \in Proc, Fail(p) PROVE Creation'
  BY <1>11 DEF Fail
<1>12. ASSUME NEW p \in Proc, Kill(p) PROVE Creation'
  BY <1>12 DEF Kill
<1>13. ASSUME Edit PROVE Creation'
  BY <1>13 DEF Edit
<1>14. ASSUME UNCHANGED vars PROVE Creation'
  BY <1>14 DEF vars
<1> QED
  BY <1>1, <1>2, <1>3, <1>4, <1>5, <1>6, <1>7, <1>8, <1>9, <1>10, <1>11,
     <1>12, <1>13, <1>14 DEF Next, Step

-----------------------------------------------------------------------------
(* Overlapping writers converge.                                           *)

\* A step that writes nothing, ends no write and begins no load.
Quiet ==
  /\ UNCHANGED <<exists, file, foundFile, edits, stopped>>
  /\ \A q \in Proc : /\ pc[q] = "writing" => pc'[q] = "writing" /\ offset'[q] = offset[q]
                     /\ pc[q] = "idle" <=> pc'[q] = "idle"

LEMMA QuietSteps ==
  ASSUME TypeOK, NEW p \in Proc,
         \/ Open(p) \/ OpenMissing(p) \/ ReadChunk(p) \/ ReadEnd(p) \/ Parse(p)
         \/ CreateDir(p)
  PROVE  Quiet
<1> USE DEF Quiet, Goto, Reads, TypeOK
<1>1. CASE Open(p)        BY <1>1 DEF Open
<1>2. CASE OpenMissing(p) BY <1>2 DEF OpenMissing
<1>3. CASE ReadChunk(p)   BY <1>3 DEF ReadChunk
<1>4. CASE ReadEnd(p)     BY <1>4 DEF ReadEnd
<1>5. CASE Parse(p)       BY <1>5 DEF Parse
<1>6. CASE CreateDir(p)   BY <1>6 DEF CreateDir
<1> QED
  BY <1>1, <1>2, <1>3, <1>4, <1>5, <1>6

LEMMA UntouchedBefore ==
  ASSUME TypeOK, [Next]_vars, Untouched'
  PROVE  /\ Untouched
         /\ ~Edit /\ \A p \in Proc : ~Fail(p) /\ ~Kill(p)
<1> USE DEF Untouched, TypeOK
<1>1. ASSUME NEW p \in Proc, Begin(p) \/ Step(p) PROVE Untouched
  BY <1>1 DEF Begin, Step, Open, OpenMissing, ReadChunk, ReadEnd, Parse, CreateDir,
     Create, WriteChunk, WriteEnd
<1>2. ~Edit
  BY MaxEditsAssumption DEF Edit
<1>3. \A p \in Proc : ~Fail(p) /\ ~Kill(p)
  BY DEF Fail, Kill
<1> QED
  BY <1>1, <1>2, <1>3 DEF Next, vars

LEMMA ConvergingStep ==
  ASSUME TypeOK, Creation, Converging, [Next]_vars
  PROVE  Converging'
<1> DEFINE Whole == file = Default \/ \E q \in Proc : Upholds(q)
<1> SUFFICES ASSUME Untouched', exists', NEW r \in Proc \ foundFile', pc'[r] # "idle"
             PROVE  Whole'
  BY DEF Converging
<1>0. Untouched /\ ~Edit /\ \A p \in Proc : ~Fail(p) /\ ~Kill(p)
  BY UntouchedBefore
<1>1. ASSUME NEW p \in Proc, Begin(p) PROVE Whole'
  <2>1. /\ exists /\ r # p /\ r \notin foundFile /\ pc[r] # "idle"
        /\ \A q \in Proc : Upholds(q) => Upholds(q)'
        /\ file' = file
    BY <1>1 DEF Begin, Goto, TypeOK, Upholds
  <2> QED
    BY <1>0, <2>1 DEF Converging, Default
<1>2. ASSUME Quiet PROVE Whole'
  <2>1. /\ exists /\ r \notin foundFile /\ pc[r] # "idle"
        /\ \A q \in Proc : Upholds(q) => Upholds(q)'
        /\ file' = file
    BY <1>2 DEF Quiet, Upholds
  <2> QED
    BY <1>0, <2>1 DEF Converging, Default
<1>3. ASSUME NEW p \in Proc, Create(p) PROVE Whole'
  <2>1. Upholds(p)'
    BY <1>3 DEF Create, Goto, TypeOK, Upholds
  <2> QED
    BY <2>1
<1>4. ASSUME NEW p \in Proc, WriteChunk(p) PROVE Whole'
  <2> DEFINE i == offset[p] + 1
  <2>1. /\ i \in 1 .. Size /\ file \in Texts /\ Default[i] = i /\ i \in Chunk
        /\ offset[p] \in 0 .. Size
    BY <1>4, SizeAssumption, DefaultFacts DEF WriteChunk, TypeOK, Chunk
  <2>2. file' = Overlay(file, i, i)
    BY <1>4, <2>1 DEF WriteChunk
  <2>3. /\ i \in DOMAIN file' /\ file'[i] = i
        /\ DOMAIN file \subseteq DOMAIN file'
        /\ \A j \in DOMAIN file \ {i} : file'[j] = file[j]
        /\ file' \in Texts
    <3> HIDE DEF i
    <3>1. Len(file) \in 0 .. Size /\ DOMAIN file = 1 .. Len(file)
      BY <2>1, TextFacts
    <3>2. /\ DOMAIN file' = 1 .. (IF i > Len(file) THEN i ELSE Len(file))
          /\ file'[i] = i
          /\ \A j \in DOMAIN file \ {i} : file'[j] = file[j]
          /\ file' \in Texts
      BY <2>1, <2>2, OverlayFacts
    <3> QED
      BY <2>1, <3>1, <3>2, SizeAssumption
  <2>4. \A j \in DOMAIN file : file[j] = j => j \in DOMAIN file' /\ file'[j] = j
    BY <2>3
  <2>5. /\ exists /\ r \notin foundFile /\ pc[r] # "idle"
        /\ pc' = pc /\ pc[p] = "writing"
        /\ \A q \in Proc \ {p} : offset'[q] = offset[q]
        /\ offset'[p] = i
    BY <1>4 DEF WriteChunk, TypeOK
  <2>6. CASE file = Default
    <3>1. \A j \in 1 .. Size : j \in DOMAIN file' /\ file'[j] = j
      BY <2>4, <2>6 DEF Default
    <3>2. file' = Default
      BY <2>3, <3>1, DefaultFacts
    <3> QED
      BY <3>2 DEF Default
  <2>7. ASSUME NEW q \in Proc, Upholds(q) PROVE Upholds(q)'
    <3>1. \A j \in 1 .. offset[q] : j \in DOMAIN file' /\ file'[j] = j
      BY <2>4, <2>7 DEF Upholds
    <3>2. CASE q = p
      BY <2>1, <2>3, <2>5, <3>1, <3>2, SizeAssumption DEF Upholds
    <3>3. CASE q # p
      BY <2>5, <2>7, <3>1, <3>3 DEF Upholds
    <3> QED
      BY <3>2, <3>3
  <2> HIDE DEF i
  <2> QED
    BY <1>0, <2>5, <2>6, <2>7 DEF Converging
<1>5. ASSUME NEW p \in Proc, WriteEnd(p) PROVE Whole'
  <2>1. /\ exists /\ r \notin foundFile /\ pc[r] # "idle"
        /\ file' = file /\ offset' = offset /\ file \in Texts
        /\ offset[p] >= Size /\ offset[p] \in 0 .. Size
        /\ \A q \in Proc \ {p} : pc'[q] = pc[q]
    BY <1>5 DEF WriteEnd, Goto, TypeOK
  <2>2. CASE Upholds(p)
    <3>1. \A j \in 1 .. Size : j \in DOMAIN file /\ file[j] = j
      BY <2>1, <2>2, SizeAssumption DEF Upholds
    <3>2. file = Default
      BY <2>1, <3>1, DefaultFacts
    <3> QED
      BY <2>1, <3>2 DEF Default
  <2>3. ASSUME NEW q \in Proc \ {p}, Upholds(q) PROVE Upholds(q)'
    BY <2>1, <2>3 DEF Upholds
  <2> QED
    BY <1>0, <2>1, <2>2, <2>3 DEF Converging, Default
<1>6. ASSUME UNCHANGED vars PROVE Whole'
  <2>1. Quiet
    BY <1>6 DEF vars, Quiet
  <2> QED
    BY <1>2, <2>1
<1> QED
  BY <1>0, <1>1, <1>2, <1>3, <1>4, <1>5, <1>6, QuietSteps DEF Next, Step

-----------------------------------------------------------------------------
(* A process that is alone in finding no file.                             *)

LEMMA LoneBefore ==
  ASSUME TypeOK, [Next]_vars, NEW p \in Proc, Lone(p)'
  PROVE  Lone(p)
<1>1. ASSUME NEW q \in Proc, Begin(q) PROVE Lone(p)
  BY <1>1 DEF Begin, Lone, Goto, TypeOK
<1>2. ASSUME NEW q \in Proc, Step(q) \/ Fail(q) \/ Kill(q) PROVE Lone(p)
  <2>1. foundFile' = foundFile /\ \A r \in Proc : pc'[r] = "idle" => pc[r] = "idle"
    BY <1>2 DEF Step, Open, OpenMissing, ReadChunk, ReadEnd, Parse, CreateDir, Create,
       WriteChunk, WriteEnd, Fail, Kill, Goto, TypeOK
  <2> QED
    BY <2>1 DEF Lone
<1>3. ASSUME Edit \/ UNCHANGED vars PROVE Lone(p)
  BY <1>3 DEF Edit, vars, Lone
<1> QED
  BY <1>1, <1>2, <1>3 DEF Next

\* No other process disturbs it.
LEMMA OthersLeaveAlone ==
  ASSUME TypeOK, Creation, NEW p \in Proc, Lone(p), Alone(p),
         NEW q \in Proc \ {p}, Begin(q) \/ Step(q)
  PROVE  Alone(p)'
<1>1. pc[q] \notin {"creating", "writing"}
  BY DEF Lone, Creation, Initialising
<1>2. UNCHANGED <<exists, file>> /\ pc'[p] = pc[p] /\ offset'[p] = offset[p]
      /\ source'[p] = source[p]
  BY <1>1 DEF Begin, Step, Open, OpenMissing, ReadChunk, ReadEnd, Parse, CreateDir,
     Create, WriteChunk, WriteEnd, Goto, TypeOK
<1> QED
  BY <1>2 DEF Alone, Upholds, Default

LEMMA LonelinessStep ==
  ASSUME TypeOK, Places, Creation, Loneliness, [Next]_vars
  PROVE  Loneliness'
<1> SUFFICES ASSUME NEW p \in Proc, Untouched', Lone(p)' PROVE Alone(p)'
  BY DEF Loneliness
<1>0. Untouched /\ ~Edit /\ \A q \in Proc : ~Fail(q) /\ ~Kill(q)
  BY UntouchedBefore
<1>a. Lone(p) /\ Alone(p)
  BY <1>0, LoneBefore DEF Loneliness
<1>b. Default' = Default
  BY DEF Default
<1> USE DEF Goto, TypeOK
<1>1. CASE Begin(p)
  BY <1>1 DEF Begin, Lone, Alone
<1>2. CASE Open(p)
  BY <1>2, <1>a, <1>b DEF Open, Alone
<1>3. CASE OpenMissing(p)
  BY <1>3 DEF OpenMissing, Alone
<1>4. CASE ReadChunk(p)
  <2>1. /\ pc[p] = "rereading" /\ file = Default /\ file' = file /\ pc' = pc
        /\ \A i \in 1 .. offset[p] : source[p][i] = i
    BY <1>4, <1>a DEF ReadChunk, Reads, Alone
  <2>2. /\ source[p] \in Texts /\ Len(source[p]) = offset[p]
        /\ offset[p] \in 0 .. Size /\ offset[p] < Size
    BY <1>4, <2>1, DefaultFacts DEF ReadChunk, Places, Reads
  <2>3. file[offset[p] + 1] = offset[p] + 1 /\ offset[p] + 1 \in Chunk
    BY <2>1, <2>2, DefaultFacts, SizeAssumption DEF Chunk
  <2>4. /\ source'[p] = Append(source[p], offset[p] + 1)
        /\ offset'[p] = offset[p] + 1
    BY <1>4, <2>3 DEF ReadChunk
  <2>5. \A i \in 1 .. offset'[p] : source'[p][i] = i
    BY <2>1, <2>2, <2>3, <2>4, AppendFacts, SizeAssumption
  <2> QED
    BY <1>b, <2>1, <2>5 DEF Alone
<1>5. CASE ReadEnd(p)
  <2>1. /\ pc[p] = "rereading" /\ file = Default
        /\ \A i \in 1 .. offset[p] : source[p][i] = i
    BY <1>5, <1>a DEF ReadEnd, Reads, Alone
  <2>2. /\ source[p] \in Texts /\ Len(source[p]) = offset[p]
        /\ offset[p] \in 0 .. Size /\ offset[p] >= Size
    BY <1>5, <2>1, DefaultFacts DEF ReadEnd, Places, Reads
  <2>3. \A i \in 1 .. Size : i \in DOMAIN source[p] /\ source[p][i] = i
    BY <2>1, <2>2, TextFacts, SizeAssumption
  <2>4. source[p] = Default
    BY <2>2, <2>3, DefaultFacts
  <2>5. pc'[p] = "parsing" /\ source' = source
    BY <1>5 DEF ReadEnd
  <2> QED
    BY <1>b, <2>4, <2>5 DEF Alone
<1>6. CASE Parse(p)
  <2>1. /\ pc[p] = "parsing" /\ pc'[p] \in {"loaded", "parse_error"}
        /\ source' = source
    BY <1>6 DEF Parse
  <2> QED
    BY <1>a, <1>b, <2>1 DEF Alone
<1>7. CASE CreateDir(p)
  BY <1>7, <1>a DEF CreateDir, Alone
<1>8. CASE Create(p)
  BY <1>8, EmptyText DEF Create, Alone, Upholds
<1>9. CASE WriteChunk(p)
  <2> DEFINE i == offset[p] + 1
  <2>1. /\ i \in 1 .. Size /\ file \in Texts /\ Default[i] = i /\ i \in Chunk
        /\ offset[p] \in 0 .. Size
    BY <1>9, SizeAssumption, DefaultFacts DEF WriteChunk, Chunk
  <2>2. file' = Overlay(file, i, i) /\ offset'[p] = i /\ pc' = pc /\ pc[p] = "writing"
    BY <1>9, <2>1 DEF WriteChunk
  <2>3. /\ Len(file) = offset[p] /\ DOMAIN file = 1 .. offset[p]
        /\ \A j \in 1 .. offset[p] : file[j] = j
        /\ i > Len(file)
    BY <1>a, <2>1, <2>2, TextFacts, SizeAssumption DEF Alone, Upholds
  <2>4. /\ Len(file') = i /\ DOMAIN file' = 1 .. i /\ file'[i] = i
        /\ \A j \in DOMAIN file \ {i} : file'[j] = file[j]
    <3> HIDE DEF i
    <3>1. /\ Len(file') = IF i > Len(file) THEN i ELSE Len(file)
          /\ DOMAIN file' = 1 .. (IF i > Len(file) THEN i ELSE Len(file))
          /\ file'[i] = i
          /\ \A j \in DOMAIN file \ {i} : file'[j] = file[j]
      BY <2>1, <2>2, OverlayFacts
    <3>2. (IF i > Len(file) THEN i ELSE Len(file)) = i
      BY <2>3
    <3> QED
      BY <3>1, <3>2
  <2>5. \A j \in 1 .. i : file'[j] = j
    BY <2>1, <2>3, <2>4, SizeAssumption
  <2> HIDE DEF i
  <2> QED
    BY <2>2, <2>4, <2>5 DEF Alone, Upholds
<1>10. CASE WriteEnd(p)
  <2>1. /\ Upholds(p) /\ offset[p] >= Size /\ offset[p] \in 0 .. Size
        /\ file \in Texts /\ file' = file /\ pc'[p] = "reopening"
    BY <1>10, <1>a DEF WriteEnd, Alone
  <2>2. \A j \in 1 .. Size : j \in DOMAIN file /\ file[j] = j
    BY <2>1, SizeAssumption DEF Upholds
  <2>3. file' = Default
    BY <2>1, <2>2, DefaultFacts
  <2> QED
    BY <1>b, <2>1, <2>3 DEF Alone
<1>11. ASSUME NEW q \in Proc \ {p}, Begin(q) \/ Step(q) PROVE Alone(p)'
  BY <1>11, <1>a, OthersLeaveAlone
<1>12. CASE UNCHANGED vars
  BY <1>12, <1>a DEF vars, Alone, Upholds, Default
<1> QED
  BY <1>0, <1>1, <1>2, <1>3, <1>4, <1>5, <1>6, <1>7, <1>8, <1>9, <1>10, <1>11,
     <1>12 DEF Next, Step

-----------------------------------------------------------------------------
(* The invariant.                                                          *)

LEMMA InvInit == Init => IInv
<1> SUFFICES ASSUME Init PROVE IInv
  OBVIOUS
<1>1. TypeOK
  BY TypeInit
<1>2. InPlace(<<>>) /\ InPlace(<<User>>)
  BY DEF InPlace
<1>3. Places
  BY <1>2 DEF Init, Places, Reads
<1>4. Creation
  BY DEF Init, Creation, Made
<1>5. Converging
  BY DEF Init, Converging
<1>6. Loneliness
  BY DEF Init, Loneliness, Alone
<1> QED
  BY <1>1, <1>3, <1>4, <1>5, <1>6 DEF IInv

LEMMA InvStep == IInv /\ [Next]_vars => IInv'
BY TypeStep, PlacesStep, CreationStep, ConvergingStep, LonelinessStep DEF IInv

LEMMA Invariant == Spec => []IInv
BY InvInit, InvStep, PTL DEF Spec

-----------------------------------------------------------------------------
(* Results.                                                                *)

\* Every variable stays in its type: no text, of the file or of a reader,
\* outgrows the default, whoever overtakes whom in writing and reading it.
THEOREM TypeCorrect == Spec => []TypeOK
BY Invariant, PTL DEF IInv

\* load_or_init never reads a chunk of the default in another's place: what it
\* reads is the default's, zero bytes of an overtaken writer or the user's.
THEOREM NeverMisplaced == Spec => []NothingMisplaced
<1>1. IInv => NothingMisplaced
  BY DEF IInv, Places, InPlace, NothingMisplaced
<1> QED
  BY <1>1, Invariant, PTL

\* However many first runs overlap in write_default, and wherever they overtake
\* each other, the file they leave behind is the whole default.
THEOREM Converges == Spec => []WritersConverge
<1>1. ASSUME IInv PROVE WritersConverge
  <2> SUFFICES ASSUME Untouched, \A p \in Proc : pc[p] # "writing",
                      NEW p \in Proc \ foundFile,
                      pc[p] \in {"reopening", "parsing", "loaded", "parse_error"} \cup Reads
               PROVE  file = Default
    BY DEF WritersConverge
  <2>1. exists /\ pc[p] # "idle"
    BY <1>1 DEF IInv, Creation, Made, Reads
  <2> QED
    BY <1>1, <2>1 DEF IInv, Converging, Upholds
<1> QED
  BY <1>1, Invariant, PTL

\* A first run that no other overlaps loads from load_or_init the whole default
\* that write_default wrote, whoever else loads the file meanwhile.
THEOREM LoneLoadsDefault == Spec => []LoneFirstRunLoadsDefault
<1>1. IInv => LoneFirstRunLoadsDefault
  BY DEF IInv, Loneliness, Lone, Alone, LoneFirstRunLoadsDefault
<1> QED
  BY <1>1, Invariant, PTL

=============================================================================
