----------------------------- MODULE AuditChain -----------------------------
(***************************************************************************)
(* The JSONL audit log: AuditLog (start-up, append, rotation) and the walk *)
(* of airlock-audit verify over its files, with short writes, failing      *)
(* renames, cuts and opens, crashes between any two system calls, and a    *)
(* --audit-keep that is lowered from one start to the next.                *)
(*                                                                         *)
(* A file is a sequence of pieces: the text of a record, a fragment of one *)
(* and the newline that ends a line.  A hash names the record it is of, so *)
(* a record is its number and the number of its predecessor.               *)
(***************************************************************************)
EXTENDS Naturals, Sequences, FiniteSets, Functions

CONSTANTS
  Keeps,        \* the values of --audit-keep, rotated files to keep
  MaxWrites,    \* bound on the records written
  MaxCrashes,   \* bound on the crashes
  CutMayFail,   \* TRUE: the file may refuse to shrink (append-only)
  OpenMayFail   \* TRUE: the open after a rotation may fail

ASSUME KeepAssumption ==
  /\ Keeps \subseteq Nat \ {0}
  /\ \E most \in Keeps : \A k \in Keeps : k <= most

ASSUME BoundAssumption == MaxWrites \in Nat /\ MaxCrashes \in Nat

ASSUME FailureAssumption == CutMayFail \in BOOLEAN /\ OpenMayFail \in BOOLEAN

Genesis == 0
Ids == 1..MaxWrites

Record(id, prev) == [kind |-> "record", id |-> id, prev |-> prev]
Fragment(id) == [kind |-> "fragment", id |-> id, prev |-> Genesis]
Newline == [kind |-> "newline", id |-> 0, prev |-> Genesis]

Entries == {Record(i, p) : i \in Ids, p \in Ids \cup {Genesis}}
Pieces == Entries \cup {Fragment(i) : i \in Ids} \cup {Newline}

\* No such file.
Missing == <<[kind |-> "missing", id |-> 0, prev |-> Genesis]>>

VARIABLES
  file,     \* file[0]: audit.jsonl, file[n]: audit.jsonl.n
  pc,       \* where the append stands, "down": no process
  keep,     \* self.keep
  open,     \* self._f is open
  slot,     \* the next rename fills this slot, the next unlink empties it
  failed,   \* a rename or an unlink of this rotation failed
  last,     \* self._last
  torn,     \* self._torn
  seq,      \* the record being appended, or the last one
  crashes,  \* crashes so far
  refused,  \* records whose write raised
  uncut,    \* a torn line could not be cut
  astray,   \* a start found no end of the chain although there is one
  rotated,  \* a rotation was completed since the start
  split     \* records are gone while files with older ones are left

history == <<refused, uncut, astray, rotated, split>>
vars == <<file, pc, keep, open, slot, failed, last, torn, seq, crashes, history>>
memory == <<keep, open, slot, failed, last, torn>>

Most == CHOOSE most \in Keeps : \A k \in Keeps : k <= most

Slots == 0..Most

Init ==
  /\ file = [n \in Slots |-> IF n = 0 THEN <<>> ELSE Missing]
  /\ pc = "idle"
  /\ keep = Most
  /\ open = TRUE
  /\ slot = 0
  /\ failed = FALSE
  /\ last = Genesis
  /\ torn = FALSE
  /\ seq = 0
  /\ crashes = 0
  /\ refused = {}
  /\ uncut = FALSE /\ astray = FALSE /\ rotated = FALSE /\ split = FALSE

-----------------------------------------------------------------------------
(* Reading a file *)

\* A line that is a record: its text, alone between two line ends.
Whole(f, i) ==
  /\ f[i].kind = "record"
  /\ i > 1 => f[i - 1] = Newline
  /\ i < Len(f) => f[i + 1] = Newline

\* The byte after the last newline.
Cut(f) ==
  LET ends == {i \in DOMAIN f : f[i] = Newline}
  IN SubSeq(f, 1, IF ends = {} THEN 0 ELSE CHOOSE i \in ends : \A j \in ends : j <= i)

\* What follows the last newline is not a record: _tail's torn fragment.
Torn(f) == Cut(f) # f /\ ~Whole(f, Len(f))

\* _last_hash: of the last line, the torn one left out.
LastHash(f) ==
  LET g == IF Torn(f) THEN Cut(f) ELSE f
      n == IF g # <<>> /\ g[Len(g)] = Newline THEN Len(g) - 1 ELSE Len(g)
  IN IF n > 0 /\ Whole(g, n) THEN g[n].id ELSE Genesis

\* Variant: the rotated file is not looked at.
ChainEndLive(live, older) == LastHash(live)

\* Where a process that starts takes up the chain.
ChainEnd(live, older) ==
  IF LastHash(live) # Genesis \/ older = Missing THEN LastHash(live)
  ELSE LastHash(older)

-----------------------------------------------------------------------------
(* _append *)

Put(piece) == file' = [file EXCEPT ![0] = @ \o piece]

Refuse ==
  /\ pc' = "idle"
  /\ refused' = refused \cup {seq}
  /\ UNCHANGED <<astray, rotated, split>>

Accept(at) == pc' = at /\ UNCHANGED <<refused, astray, rotated, split>>

\* Variant: a line left without its newline is not looked at.
BeginBlind ==
  /\ pc = "idle" /\ seq < MaxWrites
  /\ seq' = seq + 1
  /\ pc' = "room"
  /\ UNCHANGED <<file, memory, crashes, history>>

\* seal: the record is chained to self._last.
Begin ==
  /\ pc = "idle" /\ seq < MaxWrites
  /\ seq' = seq + 1
  /\ pc' = IF torn THEN "newline" ELSE "room"
  /\ UNCHANGED <<file, memory, crashes, history>>

\* The torn line gets its newline, or a full disk refuses even that.
EndTorn ==
  /\ pc = "newline"
  /\ \/ open /\ Put(<<Newline>>) /\ torn' = FALSE /\ Accept("room")
     \/ Refuse /\ UNCHANGED <<file, torn>>
  /\ UNCHANGED <<keep, open, slot, failed, last, seq, crashes, uncut>>

\* Whether there is room for the record is a matter of its length.
Fits ==
  /\ pc = "room"
  /\ pc' = "write"
  /\ UNCHANGED <<file, memory, seq, crashes, history>>

\* Variant: one rename too many.
FullOffByOne ==
  /\ pc = "room"
  /\ ~open \/ file[0] # <<>>
  /\ pc' = "rename"
  /\ open' = FALSE
  /\ slot' = keep + 1
  /\ failed' = FALSE
  /\ UNCHANGED <<file, keep, last, torn, seq, crashes, history>>

\* The size is that of the file, or what it was before an open that failed.
Full ==
  /\ pc = "room"
  /\ ~open \/ file[0] # <<>>
  /\ pc' = "rename"
  /\ open' = FALSE
  /\ slot' = keep
  /\ failed' = FALSE
  /\ UNCHANGED <<file, keep, last, torn, seq, crashes, history>>

\* The rest of the rotation is skipped, up to the open.
Skip ==
  /\ failed' = TRUE
  /\ pc' = "reopen"
  /\ UNCHANGED <<file, slot, split>>

\* The records of file n go: they were the oldest, or older files are left.
Drop(n) ==
  split' = IF file[n] = Missing THEN split ELSE \E m \in Slots : m > n /\ file[m] # Missing

\* One os.replace of _rotate, from the highest slot down.
Rename ==
  /\ pc = "rename"
  /\ \/ /\ file' = IF file[slot - 1] = Missing THEN file
                   ELSE [file EXCEPT ![slot] = file[slot - 1], ![slot - 1] = Missing]
        /\ slot' = IF slot = 1 THEN keep + 1 ELSE slot - 1
        /\ pc' = IF slot = 1 THEN "unlink" ELSE "rename"
        /\ IF file[slot - 1] = Missing THEN split' = split ELSE Drop(slot)
        /\ UNCHANGED failed
     \/ file[slot - 1] # Missing /\ Skip
  /\ UNCHANGED <<keep, open, last, torn, seq, crashes, refused, uncut, astray, rotated>>

\* The files of a larger keep go from the lowest number up, to the first gap.
Unlink ==
  /\ pc = "unlink"
  /\ LET stale == slot \in Slots /\ file[slot] # Missing
     IN \/ /\ stale
           /\ file' = [file EXCEPT ![slot] = Missing]
           /\ slot' = slot + 1
           /\ Drop(slot)
           /\ UNCHANGED <<pc, failed>>
        \/ stale /\ Skip
        \/ ~stale /\ pc' = "reopen" /\ UNCHANGED <<file, slot, failed, split>>
  /\ UNCHANGED <<keep, open, last, torn, seq, crashes, refused, uncut, astray, rotated>>

\* The live file is opened again whatever became of the renames; when that
\* fails, the log stays closed until a later rotation opens it.
Reopen ==
  /\ pc = "reopen"
  /\ \/ /\ file' = [file EXCEPT ![0] = IF @ = Missing THEN <<>> ELSE @]
        /\ open' = TRUE
        /\ \/ failed /\ Refuse
           \/ /\ ~failed /\ pc' = "write"
              /\ rotated' = TRUE
              /\ UNCHANGED <<refused, astray, split>>
     \/ OpenMayFail /\ Refuse /\ UNCHANGED <<file, open>>
  /\ UNCHANGED <<keep, slot, failed, last, torn, seq, crashes, uncut>>

\* The pieces of the record a write may leave behind when it comes up short.
Short(id, prev) == {<<Fragment(id)>>, <<Record(id, prev)>>}

\* A closed file refuses every write.
Write ==
  /\ pc = "write"
  /\ \/ /\ open /\ Put(<<Record(seq, last), Newline>>)
        /\ last' = seq
        /\ Accept("idle")
     \/ /\ open /\ \E piece \in Short(seq, last) : Put(piece)
        /\ last' = last
        /\ Accept("cut")
     \/ Refuse /\ UNCHANGED <<file, last>>
  /\ UNCHANGED <<keep, open, slot, failed, torn, seq, crashes, uncut>>

\* Variant: the short write is only remembered, as if it could not be cut.
CutBackNever ==
  /\ pc = "cut"
  /\ torn' = TRUE
  /\ Refuse
  /\ UNCHANGED <<file, keep, open, slot, failed, last, seq, crashes, uncut>>

\* The half line comes back off, or is left for a newline.
CutBack ==
  /\ pc = "cut"
  /\ \/ /\ file' = [file EXCEPT ![0] = SubSeq(@, 1, Len(@) - 1)]
        /\ UNCHANGED <<torn, uncut>>
     \/ /\ CutMayFail
        /\ torn' = TRUE
        /\ uncut' = TRUE
        /\ UNCHANGED file
  /\ Refuse
  /\ UNCHANGED <<keep, open, slot, failed, last, seq, crashes>>

-----------------------------------------------------------------------------
(* airlock-audit verify *)

\* default_files: the live file and every rotated one there is.
Files == {n \in Slots : file[n] # Missing}

\* Those self.keep is about; a start under a smaller one leaves more behind.
Kept == {n \in Files : n <= keep}

\* A line still being written is not one yet.
Settled(n) == IF n = 0 /\ pc = "cut" THEN SubSeq(file[0], 1, Len(file[0]) - 1) ELSE file[n]

\* Some line is not JSON.
Garbage ==
  \E n \in Files : \E i \in DOMAIN Settled(n) :
    Settled(n)[i] # Newline /\ ~Whole(Settled(n), i)

\* The lines of files that are records: the file of each and its place there.
Lines(files) ==
  UNION {{n} \X {i \in DOMAIN Settled(n) : Whole(Settled(n), i)} : n \in files}

\* The walk goes from the highest number down, and down each file.
Before(a, b) == a[1] > b[1] \/ (a[1] = b[1] /\ a[2] < b[2])

\* The k-th record of the walk is that with k - 1 before it.
RecordsIn(files) ==
  LET lines == Lines(files)
      At(k) == CHOOSE a \in lines : Cardinality({b \in lines : Before(b, a)}) = k - 1
  IN [k \in 1..Cardinality(lines) |-> file[At(k)[1]][At(k)[2]]]

Records == RecordsIn(Files)
Recent == RecordsIn(Kept)
Surplus == RecordsIn(Files \ Kept)

\* Every prev is the hash of the record before; the first is taken as it is.
Chained(r) == \A i \in 2..Len(r) : r[i].prev = r[i - 1].id

Verified == ~Garbage /\ Chained(Records)

-----------------------------------------------------------------------------
(* The process *)

\* It dies between two system calls, or in the middle of the write.
Crash ==
  /\ pc # "down" /\ crashes < MaxCrashes
  /\ crashes' = crashes + 1
  /\ pc' = "down"
  /\ \/ UNCHANGED file
     \/ /\ pc = "write" /\ open
        /\ \E piece \in Short(seq, last) \cup {<<Record(seq, last), Newline>>} : Put(piece)
  /\ UNCHANGED <<memory, seq, history>>

Live == IF file[0] = Missing THEN <<>> ELSE file[0]

\* AuditLog.__init__: the torn line is cut, the chain taken up, the file opened,
\* under the keep of before or a smaller one.
Start ==
  /\ pc = "down"
  /\ \E cut \in BOOLEAN :
       /\ ~cut => CutMayFail /\ Torn(Live)
       /\ LET f == IF cut /\ Torn(Live) THEN Cut(Live) ELSE Live
          IN /\ file' = [file EXCEPT ![0] = f]
             /\ torn' = (f # <<>> /\ f[Len(f)] # Newline)
       /\ uncut' = (uncut \/ ~cut)
  /\ last' = ChainEnd(Live, file[1])
  /\ astray' = (astray \/ (LastHash(Live) = Genesis /\ file[1] = Missing /\ Records # <<>>))
  /\ rotated' = FALSE
  /\ keep' \in {k \in Keeps : k <= keep}
  /\ open' = TRUE
  /\ pc' = "idle"
  /\ slot' = 0
  /\ failed' = FALSE
  /\ UNCHANGED <<seq, crashes, refused, split>>

Next ==
  \/ Begin \/ EndTorn \/ Fits \/ Full \/ Rename \/ Unlink \/ Reopen
  \/ Write \/ CutBack \/ Crash \/ Start

Spec == Init /\ [][Next]_vars

-----------------------------------------------------------------------------
(* What the log promises *)

\* Types of all the state.
TypeOK ==
  /\ file \in [Slots -> Seq(Pieces) \cup {Missing}]
  /\ pc \in {"idle", "newline", "room", "rename", "unlink", "reopen", "write", "cut", "down"}
  /\ keep \in Keeps /\ slot \in 0..(Most + 1) /\ (pc = "rename" => slot \in 1..keep)
  /\ last \in Ids \cup {Genesis} /\ seq \in Ids \cup {0}
  /\ {open, failed, torn, uncut, astray, rotated, split} \subseteq BOOLEAN
  /\ crashes \in 0..MaxCrashes /\ refused \subseteq Ids

\* src/README.md:547 "so the chain goes on from the last whole record and
\* verify still passes": whatever crashes, short writes and failed renames a
\* log went through, its files verify at any time, in the middle of a rotation
\* too, as long as every torn line could be cut, and no start has had to do
\* without the live file and .1 because they could not be opened.  Under a keep
\* that was lowered the files up to it still do; all of them do until a rotation
\* drops records that a file above is older than, and again when none is left.
VerifyPasses ==
  (pc \notin {"down", "cut"} /\ ~uncut /\ ~astray) =>
    /\ ~Garbage /\ Chained(Recent)
    /\ ~split => Verified

\* A record whose write raised, on which a call was refused, is not in the log.
RefusedNotRecorded ==
  (pc \notin {"down", "cut"} /\ ~uncut) => \A r \in Range(Records) : r.id \notin refused

Ledger == INSTANCE AuditLedger WITH log <- Recent, old <- Surplus

\* The files up to keep are an append-only log that only forgets its oldest
\* records, through torn lines, rotation and restarts; what a lowered keep cuts
\* off from it is never added to, and goes from the newer end.
RefinesLedger == Ledger!Spec

\* src/README.md:592 "Lowering `--audit-keep` deletes the existing `.N` files
\* above the new limit at the next rotation."
LoweredKeepDeletes == rotated => \A n \in Slots : n > keep => file[n] = Missing
=============================================================================
