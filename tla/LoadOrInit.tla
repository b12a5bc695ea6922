----------------------------- MODULE LoadOrInit -----------------------------
(***************************************************************************)
(* LoadOrInitFile::load_or_init and write_default of config_file.rs: how   *)
(* several redoubtful processes, started at will, load one file            *)
(* (config.toml or secrets.toml) that the first of them is to create from  *)
(* the embedded default, while its user may edit it in place.              *)
(*                                                                         *)
(* The file is a sequence of chunks; reads and writes go chunk by chunk,   *)
(* each process at its own offset, as read_to_string and fs::write do with *)
(* a descriptor of their own.  The system offers no lock and the code      *)
(* takes none.                                                             *)
(***************************************************************************)
EXTENDS Naturals, Sequences

CONSTANTS
  Proc,       \* the redoubtful processes
  Size,       \* the length of the default text, in chunks
  MaxEdits    \* how often the user saves the file (a bound)

ASSUME SizeAssumption == Size \in Nat \ {0}
ASSUME MaxEditsAssumption == MaxEdits \in Nat

VARIABLES
  exists,     \* whether there is a file
  file,       \* its chunks (none when there is no file)
  pc,         \* where each process is
  offset,     \* how far its descriptor has come
  source,     \* what it has read
  edits,      \* how often the user has saved
  foundFile,  \* history: processes that began when there was a file
  stopped     \* history: some process failed or was killed

vars == <<exists, file, pc, offset, source, edits, foundFile, stopped>>

-----------------------------------------------------------------------------
Hole == 0           \* a chunk never written: zero bytes
User == Size + 1    \* a chunk of the user's
Chunk == 0 .. Size + 1

\* default_content
Default == [i \in 1 .. Size |-> i]

Reads == {"reading", "rereading"}
Initialising == {"missing", "creating", "writing"}
Ends == {"loaded", "parse_error", "failed", "killed"}
Running == {"opening", "reopening"} \cup Reads \cup Initialising \cup {"parsing"}

Goto(p, place) == pc' = [pc EXCEPT ![p] = place]

\* text with a chunk written at position i, holes before it if it was short.
Overlay(text, i, chunk) ==
  [j \in 1 .. IF i > Len(text) THEN i ELSE Len(text) |->
     IF j = i THEN chunk ELSE IF j <= Len(text) THEN text[j] ELSE Hole]

Init ==
  /\ exists \in BOOLEAN
  /\ file \in IF exists THEN {<<User>>, <<>>} ELSE {<<>>}
  /\ pc = [p \in Proc |-> "idle"]
  /\ offset = [p \in Proc |-> 0]
  /\ source = [p \in Proc |-> <<>>]
  /\ edits = 0
  /\ foundFile = {}
  /\ stopped = FALSE

-----------------------------------------------------------------------------
(* Slips the properties are to catch.                                      *)

\* The file is open for appending.
WriteChunkAppending(p) ==
  /\ pc[p] = "writing"
  /\ offset[p] < Size
  /\ file' = Append(file, Default[offset[p] + 1])
  /\ offset' = [offset EXCEPT ![p] = @ + 1]
  /\ UNCHANGED <<exists, pc, source, edits, foundFile, stopped>>

\* A write that is continued starts over in the buffer.
WriteChunkFromStart(p) ==
  /\ pc[p] = "writing"
  /\ offset[p] < Size
  /\ file' = Overlay(file, offset[p] + 1, Default[1])
  /\ offset' = [offset EXCEPT ![p] = @ + 1]
  /\ UNCHANGED <<exists, pc, source, edits, foundFile, stopped>>

\* The file is parsed as it is once it is created.
WriteChunkOnce(p) ==
  /\ pc[p] = "writing"
  /\ offset[p] < Size
  /\ file' = Overlay(file, offset[p] + 1, Default[offset[p] + 1])
  /\ offset' = [offset EXCEPT ![p] = @ + 1]
  /\ Goto(p, "reopening")
  /\ UNCHANGED <<exists, source, edits, foundFile, stopped>>

\* A read that finds nothing new is tried again.
ReadEndRetrying(p) ==
  /\ pc[p] \in Reads
  /\ offset[p] >= Len(file)
  /\ IF source[p] = <<>> THEN Goto(p, "opening") ELSE Goto(p, "parsing")
  /\ UNCHANGED <<exists, file, offset, source, edits, foundFile, stopped>>

\* write_all stops short of the last chunk.
WriteEndShort(p) ==
  /\ pc[p] = "writing"
  /\ offset[p] + 1 >= Size
  /\ Goto(p, "reopening")
  /\ UNCHANGED <<exists, file, offset, source, edits, foundFile, stopped>>

-----------------------------------------------------------------------------
\* A process comes to load_or_init.
Begin(p) ==
  /\ pc[p] = "idle"
  /\ Goto(p, "opening")
  /\ foundFile' = IF exists THEN foundFile \cup {p} ELSE foundFile
  /\ UNCHANGED <<exists, file, offset, source, edits, stopped>>

\* read_to_string opens the file, the first time or again after the write.
Open(p) ==
  /\ pc[p] \in {"opening", "reopening"}
  /\ exists
  /\ Goto(p, IF pc[p] = "opening" THEN "reading" ELSE "rereading")
  /\ offset' = [offset EXCEPT ![p] = 0]
  /\ source' = [source EXCEPT ![p] = <<>>]
  /\ UNCHANGED <<exists, file, edits, foundFile, stopped>>

\* The first open finds no file.
OpenMissing(p) ==
  /\ pc[p] = "opening"
  /\ ~exists
  /\ Goto(p, "missing")
  /\ UNCHANGED <<exists, file, offset, source, edits, foundFile, stopped>>

ReadChunk(p) ==
  /\ pc[p] \in Reads
  /\ offset[p] < Len(file)
  /\ source' = [source EXCEPT ![p] = Append(@, file[offset[p] + 1])]
  /\ offset' = [offset EXCEPT ![p] = @ + 1]
  /\ UNCHANGED <<exists, file, pc, edits, foundFile, stopped>>

\* A read returns nothing: the end of the file, as it is now.
ReadEnd(p) ==
  /\ pc[p] \in Reads
  /\ offset[p] >= Len(file)
  /\ Goto(p, "parsing")
  /\ UNCHANGED <<exists, file, offset, source, edits, foundFile, stopped>>

\* The default parses and zero bytes do not; a text cut short, or the user's,
\* may or may not.
Parse(p) ==
  /\ pc[p] = "parsing"
  /\ \/ /\ Hole \notin {source[p][i] : i \in DOMAIN source[p]}
        /\ Goto(p, "loaded")
     \/ /\ source[p] \notin {Default, <<>>}
        /\ Goto(p, "parse_error")
  /\ UNCHANGED <<exists, file, offset, source, edits, foundFile, stopped>>

\* create_dir_all
CreateDir(p) ==
  /\ pc[p] = "missing"
  /\ Goto(p, "creating")
  /\ UNCHANGED <<exists, file, offset, source, edits, foundFile, stopped>>

\* fs::write opens the file, creating it or truncating what is there now.
Create(p) ==
  /\ pc[p] = "creating"
  /\ exists' = TRUE
  /\ file' = <<>>
  /\ Goto(p, "writing")
  /\ offset' = [offset EXCEPT ![p] = 0]
  /\ UNCHANGED <<source, edits, foundFile, stopped>>

WriteChunk(p) ==
  /\ pc[p] = "writing"
  /\ offset[p] < Size
  /\ file' = Overlay(file, offset[p] + 1, Default[offset[p] + 1])
  /\ offset' = [offset EXCEPT ![p] = @ + 1]
  /\ UNCHANGED <<exists, pc, source, edits, foundFile, stopped>>

WriteEnd(p) ==
  /\ pc[p] = "writing"
  /\ offset[p] >= Size
  /\ Goto(p, "reopening")
  /\ UNCHANGED <<exists, file, offset, source, edits, foundFile, stopped>>

\* A system call fails for another reason than a missing file.
Fail(p) ==
  /\ pc[p] \in Running \ {"parsing"}
  /\ Goto(p, "failed")
  /\ stopped' = TRUE
  /\ UNCHANGED <<exists, file, offset, source, edits, foundFile>>

\* The process is killed.
Kill(p) ==
  /\ pc[p] \in Running
  /\ Goto(p, "killed")
  /\ stopped' = TRUE
  /\ UNCHANGED <<exists, file, offset, source, edits, foundFile>>

\* The user saves a text of their own, or empties the file.
Edit ==
  /\ edits < MaxEdits
  /\ exists' = TRUE
  /\ file' \in {<<User>>, <<>>}
  /\ edits' = edits + 1
  /\ UNCHANGED <<pc, offset, source, foundFile, stopped>>

\* What a process does by itself.
Step(p) ==
  \/ Open(p) \/ OpenMissing(p) \/ ReadChunk(p) \/ ReadEnd(p) \/ Parse(p)
  \/ CreateDir(p) \/ Create(p) \/ WriteChunk(p) \/ WriteEnd(p)

Next ==
  \/ \E p \in Proc : Begin(p) \/ Step(p) \/ Fail(p) \/ Kill(p)
  \/ Edit

Spec == Init /\ [][Next]_vars

\* A process that has begun keeps running.
FairSpec == Spec /\ \A p \in Proc : WF_vars(Step(p))

-----------------------------------------------------------------------------
Texts == UNION {[1 .. n -> Chunk] : n \in 0 .. Size}

\* Every variable stays in its type; no text outgrows the default.
TypeOK ==
  /\ exists \in BOOLEAN
  /\ file \in Texts
  /\ pc \in [Proc -> {"idle"} \cup Running \cup Ends]
  /\ offset \in [Proc -> 0 .. Size]
  /\ source \in [Proc -> Texts]
  /\ edits \in 0 .. MaxEdits
  /\ foundFile \subseteq Proc
  /\ stopped \in BOOLEAN

Untouched == edits = 0 /\ ~stopped

\* However the first runs overlap, the file they leave behind is the whole
\* default: truncations and chunks of one never survive as damage once all
\* have written.
WritersConverge ==
  (/\ Untouched
   /\ \A p \in Proc : pc[p] # "writing"
   /\ \E p \in Proc \ foundFile :
        pc[p] \in {"reopening", "parsing", "loaded", "parse_error"} \cup Reads)
    => file = Default

\* A process that is alone in finding no file loads the whole default, unless
\* the user or a failure came in between.
LoneFirstRunLoadsDefault ==
  \A p \in Proc :
    (/\ Untouched
     /\ pc[p] = "loaded"
     /\ p \notin foundFile
     /\ \A q \in Proc \ {p} : pc[q] = "idle" \/ q \in foundFile)
      => source[p] = Default

\* What a process reads is, chunk by chunk, the default's, zero bytes of a
\* writer that was overtaken, or the user's.
NothingMisplaced ==
  \A p \in Proc : \A i \in DOMAIN source[p] :
    source[p][i] \in {i, Hole, User}

\* Every load ends, other processes and the user's edits notwithstanding.
LoadsEnd == \A p \in Proc : pc[p] = "opening" ~> pc[p] \in Ends

\* What the comment on ConfigFile::load says: the default is never written
\* over what the user has saved.
UserEditsAreKept ==
  [][file = <<User>> => (file' = file \/ edits' # edits)]_vars
=============================================================================
