---------------------------- MODULE ProfileStore ----------------------------
(***************************************************************************)
(* The profile store of internal/profile as files.  An index (state.yaml)  *)
(* names the profiles and carries their ETags; each profile has a source   *)
(* (as downloaded) and a config (as served to Mihomo) in a directory of    *)
(* its own.  Every call holds the store's mutex and changes the files one  *)
(* atomic replacement at a time, so a call is a list of writes that a      *)
(* failure or a kill may cut anywhere.  Downloads run outside the mutex.   *)
(*                                                                         *)
(* A document is its version at the origin; version 0 is a missing file.   *)
(* The origin file is written with the source and never changes.           *)
(***************************************************************************)
EXTENDS Integers, Sequences, FiniteSets

CONSTANTS
  Ids,          \* identities newID may draw; none is drawn twice
  Remote,       \* profiles behind a URL, downloaded with their ETag
  Immutable,    \* recovery snapshots, which have no origin to refresh from
  Clients,      \* goroutines that prepare updates
  MaxVersion,   \* bound: versions an origin publishes
  MaxRev,       \* bound: values of LastUpdated
  Faults,       \* what may go wrong: "kill", "error", "late"
  MaxFaults,    \* bound: how often it does
  NoProfile, NoJob, Idle, NoCheckpoint, Pending, NotModified

ASSUME IdAssumption   == IsFiniteSet(Ids) /\ NoProfile \notin Ids
ASSUME KindAssumption == Remote \subseteq Ids /\ Immutable \subseteq Ids \ Remote
ASSUME BoundAssumption == MaxVersion \in Nat \ {0} /\ MaxRev \in Nat \ {0}
ASSUME FaultAssumption == Faults \subseteq {"kill", "error", "late"} /\ MaxFaults \in Nat
ASSUME SentinelAssumption ==
  /\ {Pending, NotModified} \cap (0 .. MaxVersion) = {}
  /\ Pending # NotModified

VARIABLES
  docs,      \* the source and config file of every identity
  index,     \* state.yaml
  upstream,  \* the version the origin of each profile publishes
  born,      \* the order in which identities were drawn, 0 if not yet
  job,       \* the update each client prepares, or has prepared
  call,      \* the call that holds the mutex
  saved,     \* the checkpoint the running operation took
  marred,    \* ghost: profiles a half-done undo or restore left behind
  faults     \* how many things went wrong so far

vars == <<docs, index, upstream, born, job, call, saved, marred, faults>>

Versions == 0 .. MaxVersion
Doc   == [source : Versions, config : Versions]
Gone  == [source |-> 0, config |-> 0]
Of(v) == [source |-> v, config |-> v]
Whole(doc) == doc.source # 0 /\ doc.config # 0

Entry == [etag : Versions, updated : 0 .. MaxRev]
Index == [named : SUBSET Ids, active : Ids \cup {NoProfile},
          chosen : SUBSET Ids, entry : [Ids -> Entry]]
NoEntry == [etag |-> 0, updated |-> 0]

(* What decodeState demands, and that some profile is active if any can.   *)
Decodes(ix) ==
  /\ ix.chosen \subseteq ix.named
  /\ IF ix.named = {} THEN ix.active = NoProfile ELSE ix.active \in ix.named

Job   == [id : Ids, entry : Entry, doc : Doc,
          got : Versions \cup {Pending, NotModified}, at : 0 .. MaxRev]
Write == [file : {"source", "config", "index", "directory"},
          id : Ids \cup {NoProfile}, to : Versions]
Names == {"add", "use", "choose", "remove", "refresh", "touch", "restore"}
Call  == [name : Names, id : Ids \cup {NoProfile}, todo : Seq(Write),
          index : Index, before : [docs : [Ids -> Doc], index : Index],
          phase : {"doing", "undoing", "dirty"}]
Checkpoint == [docs : [Ids -> Doc], index : Index, covers : SUBSET Ids,
               marred : SUBSET Ids]

ASSUME IdleAssumption == Idle \notin Call

Init ==
  /\ docs = [i \in Ids |-> Gone]
  /\ index = [named |-> {}, active |-> NoProfile, chosen |-> {},
              entry |-> [i \in Ids |-> NoEntry]]
  /\ upstream = [i \in Ids |-> 1]
  /\ born = [i \in Ids |-> 0]
  /\ job = [c \in Clients |-> NoJob]
  /\ call = Idle
  /\ saved = NoCheckpoint
  /\ marred = {}
  /\ faults = 0

-----------------------------------------------------------------------------
(* The writes of a call, in order.                                         *)

Put(id, doc) == << [file |-> "source", id |-> id, to |-> doc.source],
                   [file |-> "config", id |-> id, to |-> doc.config] >>
PutSource(id, doc) == << Put(id, doc)[1] >>
SaveIndex   == << [file |-> "index", id |-> NoProfile, to |-> 0] >>
Drop(id)    == << [file |-> "directory", id |-> id, to |-> 0] >>

Enter(name, id, todo, ix) ==
  /\ call = Idle
  /\ call' = [name |-> name, id |-> id, todo |-> todo, index |-> ix,
              before |-> [docs |-> docs, index |-> index], phase |-> "doing"]

(* Callers checkpoint what an operation may update or remove.              *)
Covered(id) == saved # NoCheckpoint => id \in saved.covers

-----------------------------------------------------------------------------
(* Calls that change the index.                                            *)

(* The first profile of the list: profiles are listed as they were added.  *)
First(S) == IF S = {} THEN NoProfile
            ELSE CHOOSE i \in S : \A j \in S : born[i] <= born[j]

(* The document was downloaded before the mutex was taken, so the origin   *)
(* may have moved on.                                                      *)
Add(id) ==
  /\ born[id] = 0
  /\ born' = [born EXCEPT ![id] = 1 + Cardinality({i \in Ids : born[i] > 0})]
  /\ \E v \in 1 .. upstream[id] :
       Enter("add", id, Put(id, Of(v)) \o SaveIndex,
             [index EXCEPT
                !.named = @ \cup {id},
                !.active = IF @ = NoProfile THEN id ELSE @,
                !.entry[id] = [etag |-> IF id \in Remote THEN v ELSE 0,
                               updated |-> 1]])
  /\ UNCHANGED <<docs, index, upstream, job, saved, marred, faults>>

Use(id) ==
  /\ id \in index.named
  /\ Enter("use", id, SaveIndex, [index EXCEPT !.active = id])
  /\ UNCHANGED <<docs, index, upstream, born, job, saved, marred, faults>>

SaveSelections(id) ==
  /\ id \in index.named
  /\ \E chosen \in {index.chosen \cup {id}, index.chosen \ {id}} :
       Enter("choose", id, SaveIndex, [index EXCEPT !.chosen = chosen])
  /\ UNCHANGED <<docs, index, upstream, born, job, saved, marred, faults>>

Leaving(id, chosen) ==
  [index EXCEPT !.named = @ \ {id}, !.chosen = chosen,
                !.active = IF @ = id THEN First(index.named \ {id}) ELSE @,
                !.entry[id] = NoEntry]

ChosenKept(id) == Leaving(id, index.chosen)  \* mutant: selections stay behind
Without(id)    == Leaving(id, index.chosen \ {id})

FilesFirst(id) == Drop(id) \o SaveIndex  \* mutant: the files go before the index
Removal(id)    == SaveIndex \o Drop(id)

Remove(id) ==
  /\ id \in index.named /\ Covered(id)
  /\ Enter("remove", id, Removal(id), Without(id))
  /\ UNCHANGED <<docs, index, upstream, born, job, saved, marred, faults>>

-----------------------------------------------------------------------------
(* Refreshing: a baseline read under the mutex, a download without it, and *)
(* a commit that checks that the baseline still stands.                    *)

Publish(id) ==
  /\ id \notin Immutable /\ upstream[id] < MaxVersion
  /\ upstream' = [upstream EXCEPT ![id] = @ + 1]
  /\ UNCHANGED <<docs, index, born, job, call, saved, marred, faults>>

ReadBaseline(c, id) ==
  /\ call = Idle /\ job[c] = NoJob
  /\ id \in index.named \ Immutable /\ Whole(docs[id])
  /\ index.entry[id].updated < MaxRev
  /\ job' = [job EXCEPT ![c] =
               [id |-> id, entry |-> index.entry[id], doc |-> docs[id],
                got |-> Pending, at |-> 0]]
  /\ UNCHANGED <<docs, index, upstream, born, call, saved, marred, faults>>

(* A server answers 304 to the ETag of what it publishes.  preparedAt is   *)
(* later than the baseline even if the clock is not.                       *)
Download(c) ==
  /\ job[c] # NoJob /\ job[c].got = Pending
  /\ LET id == job[c].id
         known == id \in Remote /\ job[c].entry.etag = upstream[id]
     IN  job' = [job EXCEPT ![c].got = IF known THEN NotModified ELSE upstream[id],
                            ![c].at = job[c].entry.updated + 1]
  /\ UNCHANGED <<docs, index, upstream, born, call, saved, marred, faults>>

Abandon(c) ==
  /\ job[c] # NoJob
  /\ job' = [job EXCEPT ![c] = NoJob]
  /\ UNCHANGED <<docs, index, upstream, born, call, saved, marred, faults>>

AnyBaseline(j) == j.id \in index.named  \* mutant: trusts what was prepared
Unmoved(j) == /\ j.id \in index.named
              /\ index.entry[j.id] = j.entry
              /\ docs[j.id] = j.doc

NewEntry(j) ==
  [etag |-> IF j.id \in Remote /\ j.got # NotModified THEN j.got ELSE j.entry.etag,
   updated |-> j.at]

ChangedDocuments(j) ==
  IF j.got = NotModified \/ docs[j.id] = Of(j.got) THEN <<>> ELSE Put(j.id, Of(j.got))

IndexFirst(j) == SaveIndex \o ChangedDocuments(j)  \* mutant: ETag before documents
CommitWrites(j) == ChangedDocuments(j) \o SaveIndex

CommitUpdate(c) ==
  /\ job[c] # NoJob /\ job[c].got # Pending
  /\ LET j == job[c] IN
       /\ Unmoved(j) /\ Covered(j.id)
       /\ Enter(IF j.got = NotModified THEN "touch" ELSE "refresh", j.id,
                CommitWrites(j), [index EXCEPT !.entry[j.id] = NewEntry(j)])
  /\ job' = [job EXCEPT ![c] = NoJob]
  /\ UNCHANGED <<docs, index, upstream, born, saved, marred, faults>>

(* ErrStaleUpdate: nothing is written.                                     *)
RefuseStale(c) ==
  /\ call = Idle
  /\ job[c] # NoJob /\ job[c].got # Pending /\ ~Unmoved(job[c])
  /\ job' = [job EXCEPT ![c] = NoJob]
  /\ UNCHANGED <<docs, index, upstream, born, call, saved, marred, faults>>

-----------------------------------------------------------------------------
(* Checkpoints.  An operation takes one, and restores or drops it; the     *)
(* operation lock keeps other operations out meanwhile.                    *)

TakeCheckpoint(covers) ==
  /\ call = Idle /\ saved = NoCheckpoint
  /\ \A i \in covers : Whole(docs[i])
  /\ \A i \in index.named : docs[i] # Gone
  /\ saved' = [docs |-> docs, index |-> index, covers |-> covers,
               marred |-> marred]
  /\ UNCHANGED <<docs, index, upstream, born, job, call, marred, faults>>

DropCheckpoint ==
  /\ call = Idle /\ saved # NoCheckpoint
  /\ saved' = NoCheckpoint
  /\ UNCHANGED <<docs, index, upstream, born, job, call, marred, faults>>

NothingAdded == {}  \* mutant: what was added since stays

(* Directories that exist now and did not at the checkpoint.               *)
Added == {i \in Ids : docs[i] # Gone /\ saved.docs[i] = Gone}

(* Go iterates over the saved files in any order.                          *)
Orders(S) == {f \in [1 .. Cardinality(S) -> S] : \A i \in S : \E k \in DOMAIN f : f[k] = i}

Restoring(back, away) ==
  LET Saved(i) == Put(i, saved.docs[i])
      put  == [k \in 1 .. 2 * Len(back) |-> Saved(back[(k + 1) \div 2])[2 - (k % 2)]]
      drop == [k \in 1 .. Len(away) |-> Drop(away[k])[1]]
  IN  put \o SaveIndex \o drop

RestoreCheckpoint ==
  /\ saved # NoCheckpoint
  /\ \E back \in Orders(saved.covers), away \in Orders(Added) :
       Enter("restore", NoProfile, Restoring(back, away), saved.index)
  /\ UNCHANGED <<docs, index, upstream, born, job, saved, marred, faults>>

-----------------------------------------------------------------------------
(* One write of the call that holds the mutex.                             *)

Next1 == Head(call.todo)
Rest  == Tail(call.todo)

Written(w) ==
  IF w.file = "index" THEN docs
  ELSE IF w.file = "directory" THEN [docs EXCEPT ![w.id] = Gone]
  ELSE IF w.file = "source" THEN [docs EXCEPT ![w.id].source = w.to]
  ELSE [docs EXCEPT ![w.id].config = w.to]

Indexed(w) == IF w.file = "index" THEN call.index ELSE index

(* What a write that fails may leave: os.RemoveAll stops anywhere, an      *)
(* atomic replacement has happened only if its directory sync is at fault. *)
Leftovers(w) ==
  IF w.file = "directory"
  THEN {[docs EXCEPT ![w.id] = [source |-> s, config |-> f]] :
          s \in {0, docs[w.id].source}, f \in {0, docs[w.id].config}}
  ELSE {docs}

Fault == faults < MaxFaults /\ faults' = faults + 1

Failed(w) ==
  \/ /\ "error" \in Faults /\ docs' \in Leftovers(w) /\ UNCHANGED index
  \/ /\ "late" \in Faults /\ docs' = Written(w) /\ index' = Indexed(w)

KeepNewSource(w) == <<>>  \* mutant: a failed config leaves the new source

(* CommitUpdate takes the source back if the config failed, and both if    *)
(* the index failed; a source that failed is left as it is.                *)
UndoCommit(w) ==
  LET old == call.before.docs[call.id]
  IN  IF w.file = "config" THEN PutSource(call.id, old)
      ELSE IF w.file = "index" /\ docs[call.id] # old THEN Put(call.id, old)
      ELSE <<>>

(* The writes by which a call takes back what it did before w failed.      *)
Undo(w) ==
  CASE call.name = "add"     -> Drop(call.id)
    [] call.name = "refresh" -> UndoCommit(w)
    [] OTHER -> <<>>

Going(todo, phase) ==
  call' = IF todo = <<>> THEN Idle ELSE [call EXCEPT !.todo = todo, !.phase = phase]

Finishes(name) == call.name = name /\ Rest = <<>>

StepOK ==
  /\ call # Idle /\ call.phase = "doing"
  /\ docs' = Written(Next1) /\ index' = Indexed(Next1)
  /\ Going(Rest, "doing")
  /\ saved' = IF Finishes("restore") THEN NoCheckpoint ELSE saved
  /\ marred' = IF Finishes("restore") THEN saved.marred
               ELSE IF Finishes("refresh") THEN marred \ {call.id}
               ELSE marred
  /\ UNCHANGED <<upstream, born, job, faults>>

StepFails ==
  /\ call # Idle /\ call.phase = "doing"
  /\ Fault /\ Failed(Next1)
  /\ Going(Undo(Next1), "undoing")
  /\ marred' = IF call.name = "restore" THEN marred \cup saved.covers
               ELSE IF index' # index /\ Undo(Next1) # <<>> THEN marred \cup {call.id}
               ELSE marred
  /\ UNCHANGED <<upstream, born, job, saved>>

UndoOK ==
  /\ call # Idle /\ call.phase # "doing"
  /\ docs' = Written(Next1) /\ Going(Rest, call.phase)
  /\ UNCHANGED <<index, upstream, born, job, saved, marred, faults>>

(* The undo goes on after a write of it failed.                            *)
UndoFails ==
  /\ call # Idle /\ call.phase # "doing"
  /\ Fault /\ Failed(Next1) /\ Going(Rest, "dirty")
  /\ UNCHANGED <<upstream, born, job, saved, marred>>

(* The process dies: files stay as they are, everything else is lost.      *)
Kill ==
  /\ "kill" \in Faults /\ Fault
  /\ call # Idle \/ saved # NoCheckpoint
  /\ call' = Idle /\ saved' = NoCheckpoint
  /\ job' = [c \in Clients |-> NoJob]
  /\ marred' = IF call # Idle /\ call.name = "restore"
               THEN marred \cup saved.covers ELSE marred
  /\ UNCHANGED <<docs, index, upstream, born>>

-----------------------------------------------------------------------------
Next ==
  \/ \E id \in Ids : \/ Add(id) \/ Use(id) \/ SaveSelections(id) \/ Remove(id)
                     \/ Publish(id)
                     \/ \E c \in Clients : ReadBaseline(c, id)
  \/ \E c \in Clients : Download(c) \/ Abandon(c) \/ CommitUpdate(c) \/ RefuseStale(c)
  \/ \E covers \in SUBSET index.named : TakeCheckpoint(covers)
  \/ DropCheckpoint \/ RestoreCheckpoint
  \/ StepOK \/ StepFails \/ UndoOK \/ UndoFails \/ Kill

Spec == Init /\ [][Next]_vars

-----------------------------------------------------------------------------
(* Every variable has its type; the call that holds the mutex has a write  *)
(* left, since the last one releases it (defer s.mu.Unlock).               *)
TypeOK ==
  /\ docs \in [Ids -> Doc] /\ index \in Index
  /\ upstream \in [Ids -> 1 .. MaxVersion]
  /\ born \in [Ids -> Nat]
  /\ job \in [Clients -> Job \cup {NoJob}]
  /\ call = Idle \/ (call \in Call /\ call.todo # <<>>)
  /\ saved \in Checkpoint \cup {NoCheckpoint}
  /\ marred \subseteq Ids /\ faults \in 0 .. MaxFaults

(* decodeState refuses an index whose active profile or remembered         *)
(* selections belong to no profile, and every later command with it: no    *)
(* call, failure or kill may write one.  Where there are profiles one is   *)
(* active.                                                                 *)
Loadable == Decodes(index)

(* A profile the index names has both its documents, at every moment and   *)
(* so after every kill: Add writes them before the index, Remove deletes   *)
(* them after it, RestoreCheckpoint restores them before the index.  Only  *)
(* an Add whose index save failed after its rename may break this.         *)
Served == \A id \in index.named : Whole(docs[id]) \/ id \in marred

(* Between calls, and so after a kill inside one, the ETag never vouches   *)
(* for a document the store does not have: if the server would answer 304, *)
(* CommitUpdate has already installed what it publishes.  Only a restore   *)
(* cut short, or a failed index save that was undone although it took      *)
(* effect, may leave a profile that no refresh brings up to date.          *)
RefreshHeals ==
  call = Idle =>
    \A id \in (index.named \cap Remote) \ marred :
      index.entry[id].etag = upstream[id] => docs[id] = Of(upstream[id])

(* A commit never replaces a document by one that was downloaded earlier,  *)
(* whatever was committed, restored or removed since PrepareUpdate read    *)
(* its baseline; only an undo or a restore goes back.                      *)
NoDowngrade ==
  [][\A id \in Ids : docs[id].config > docs'[id].config /\ docs'[id].config # 0
       => call.name = "restore" \/ call.phase # "doing"]_vars

(* CommitUpdate that returns an error, and whose undo did not fail, leaves *)
(* the documents and the index as they were ("CommitUpdate atomically      *)
(* installs a prepared refresh", store.go:562).                            *)
CommitAtomic ==
  [][/\ call # Idle /\ call.name = "refresh" /\ call.phase # "dirty"
     /\ StepFails \/ UndoOK
     /\ call' = Idle
     => docs' = call.before.docs /\ index' = call.before.index]_vars

(* RestoreCheckpoint that returns success gives back every file and the    *)
(* index as they were at the checkpoint, whatever calls succeeded, failed  *)
(* or failed half-way in between, and leaves no directory added since.     *)
RestoreComplete ==
  [][saved # NoCheckpoint /\ StepOK /\ Finishes("restore")
       => docs' = saved.docs /\ index' = saved.index]_vars
=============================================================================
