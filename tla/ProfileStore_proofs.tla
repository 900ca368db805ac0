------------------------ MODULE ProfileStore_proofs ------------------------
(***************************************************************************)
(* What the store promises, for any number of profiles, clients, calls,    *)
(* versions, failed writes and kills: the index can always be loaded, the  *)
(* profiles it names have their documents, an ETag vouches only for what   *)
(* is installed, a restore is complete, a commit is never a downgrade and, *)
(* if a write that reports an error did not happen, leaves all or nothing. *)
(*                                                                         *)
(* The invariant is StoreInv: Types; AllFit, what holds of every profile,  *)
(* of the checkpoint and of every prepared update between any two writes;  *)
(* and Form, what the call in progress has done and still has to do.       *)
(***************************************************************************)
EXTENDS ProfileStore, FiniteSetTheorems, SequenceTheorems, WellFoundedInduction,
        TLAPS

(* The index file holds what some call meant to write, or what a checkpoint *)
(* saved, so each of these must decode.                                     *)
IndexRecord(ix) ==
  /\ ix = [named |-> ix.named, active |-> ix.active,
           chosen |-> ix.chosen, entry |-> ix.entry]
  /\ ix.named \subseteq Ids

SoundIndex(ix) == IndexRecord(ix) /\ Decodes(ix)

CallRecord ==
  call = [name |-> call.name, id |-> call.id, todo |-> call.todo,
          index |-> call.index, before |-> call.before, phase |-> call.phase]

IndexInv ==
  /\ born \in [Ids -> Nat]
  /\ SoundIndex(index)
  /\ call # Idle => CallRecord /\ SoundIndex(call.index)
  /\ saved # NoCheckpoint => SoundIndex(saved.index)

(* Among profiles that are left, one was added first.                      *)
LEMMA FirstIsOne ==
  ASSUME NEW S, S \subseteq Ids, S # {}, born \in [Ids -> Nat]
  PROVE  First(S) \in S
<1> DEFINE T == {born[i] : i \in S}
<1>1. T \subseteq Nat /\ T # {}
  OBVIOUS
<1>2. PICK n \in T : \A m \in T : ~ (<<m, n>> \in OpToRel(<, Nat))
  BY <1>1, NatLessThanWellFounded, WFMin
<1>3. \A m \in T : n <= m
  <2>1. OpToRel(<, Nat) = {ss \in Nat \X Nat : ss[1] < ss[2]}
    BY DEF OpToRel
  <2>2. ASSUME NEW m \in T PROVE n <= m
    <3>1. m \in Nat /\ n \in Nat
      BY <1>1
    <3>2. ~ (<<m, n>> \in {ss \in Nat \X Nat : ss[1] < ss[2]})
      BY <1>2, <2>1
    <3> HIDE DEF T
    <3> QED BY <3>1, <3>2
  <2> QED BY <2>2
<1>4. PICK i \in S : born[i] = n
  BY <1>2
<1>5. \A j \in S : born[i] <= born[j]
  BY <1>3, <1>4
<1> QED BY <1>5 DEF First

(* Removing a profile leaves an index that decodes.                        *)
LEMMA WithoutIsSound ==
  ASSUME NEW id \in Ids, SoundIndex(index), born \in [Ids -> Nat]
  PROVE  SoundIndex(Without(id))
<1> DEFINE left == index.named \ {id}
           first == First(left)
<1>1. left # {} => first \in left
  BY FirstIsOne DEF SoundIndex, IndexRecord
<1>2. left = {} => first = NoProfile
  BY DEF First
<1>3. Without(id) =
        [index EXCEPT !.named = left, !.chosen = index.chosen \ {id},
                      !.active = IF index.active = id THEN first ELSE index.active,
                      !.entry = [index.entry EXCEPT ![id] = NoEntry]]
  <2> HIDE DEF first
  <2>1. index = [named |-> index.named, active |-> index.active,
                 chosen |-> index.chosen, entry |-> index.entry]
    BY DEF SoundIndex, IndexRecord
  <2> QED BY <2>1 DEF Without, Leaving, first
<1> HIDE DEF first
<1>4. Without(id) =
        [named |-> left,
         active |-> IF index.active = id THEN first ELSE index.active,
         chosen |-> index.chosen \ {id},
         entry |-> [index.entry EXCEPT ![id] = NoEntry]]
  BY <1>3 DEF SoundIndex, IndexRecord
<1> QED BY <1>1, <1>2, <1>4, IdAssumption DEF SoundIndex, IndexRecord, Decodes

(* Every call that enters the mutex means to write a sound index.          *)
LEMMA EnterSound ==
  ASSUME NEW name, NEW id, NEW todo, NEW ix, SoundIndex(ix), Enter(name, id, todo, ix)
  PROVE  (CallRecord /\ SoundIndex(call.index))'
  BY DEF Enter, CallRecord, SoundIndex, IndexRecord, Decodes

(* A write changes the index file to what its call meant, or not at all.   *)
LEMMA FailedKeepsSound ==
  ASSUME IndexInv, call # Idle, NEW w, Failed(w)
  PROVE  SoundIndex(index')
  BY DEF IndexInv, Failed, Indexed

LEMMA GoingKeepsCall ==
  ASSUME IndexInv, call # Idle, NEW todo, NEW phase, Going(todo, phase)
  PROVE  (call # Idle => CallRecord /\ SoundIndex(call.index))'
<1>1. CASE todo = <<>>
  BY <1>1 DEF Going
<1>2. CASE todo # <<>>
  <2>1. call' = [name |-> call.name, id |-> call.id, todo |-> todo,
                 index |-> call.index, before |-> call.before, phase |-> phase]
    BY <1>2 DEF Going, IndexInv, CallRecord
  <2> QED BY <2>1 DEF IndexInv, CallRecord, SoundIndex, IndexRecord, Decodes
<1> QED BY <1>1, <1>2

(* Whatever the calls, failures and kills, state.yaml is an index that     *)
(* decodeState accepts, with an active profile if there is any.            *)
THEOREM IndexLoads == Spec => []Loadable
<1>1. Init => IndexInv
  BY DEF Init, IndexInv, SoundIndex, IndexRecord, Decodes
<1>2. IndexInv /\ [Next]_vars => IndexInv'
  <2> SUFFICES ASSUME IndexInv, [Next]_vars PROVE IndexInv'
    OBVIOUS
  <2> USE DEF IndexInv
  <2>1. ASSUME NEW id \in Ids, Add(id) PROVE IndexInv'
    <3>1. born' \in [Ids -> Nat]
      <4>1. IsFiniteSet({i \in Ids : born[i] > 0})
        BY IdAssumption, FS_Subset, {i \in Ids : born[i] > 0} \subseteq Ids
      <4>2. Cardinality({i \in Ids : born[i] > 0}) \in Nat
        BY <4>1, FS_CardinalityType
      <4> QED BY <2>1, <4>2 DEF Add
    <3>2. PICK v \in 1 .. upstream[id] :
            Enter("add", id, Put(id, Of(v)) \o SaveIndex,
             [index EXCEPT
                !.named = @ \cup {id},
                !.active = IF @ = NoProfile THEN id ELSE @,
                !.entry[id] = [etag |-> IF id \in Remote THEN v ELSE 0,
                               updated |-> 1]])
      BY <2>1 DEF Add
    <3> DEFINE e == [etag |-> IF id \in Remote THEN v ELSE 0, updated |-> 1]
    <3> HIDE DEF e
    <3> DEFINE ix == [index EXCEPT
                !.named = @ \cup {id},
                !.active = IF @ = NoProfile THEN id ELSE @,
                !.entry[id] = e]
    <3>3. ix = [named |-> index.named \cup {id},
                active |-> IF index.active = NoProfile THEN id ELSE index.active,
                chosen |-> index.chosen,
                entry |-> [index.entry EXCEPT ![id] = e]]
      <4>1. index = [named |-> index.named, active |-> index.active,
                     chosen |-> index.chosen, entry |-> index.entry]
        BY DEF SoundIndex, IndexRecord
      <4>2. ix = [index EXCEPT
                    !.named = index.named \cup {id},
                    !.active = IF index.active = NoProfile THEN id ELSE index.active,
                    !.entry = [index.entry EXCEPT ![id] = e]]
        BY <4>1
      <4> HIDE DEF ix
      <4> QED BY <4>1, <4>2
    <3>4. SoundIndex(ix)
      BY <3>3, IdAssumption DEF SoundIndex, IndexRecord, Decodes
    <3>5. Enter("add", id, Put(id, Of(v)) \o SaveIndex, ix)
      BY <3>2 DEF e
    <3>6. (CallRecord /\ SoundIndex(call.index))'
      BY <3>4, <3>5, EnterSound
    <3> QED BY <2>1, <3>1, <3>6 DEF Add
  <2>2. ASSUME NEW id \in Ids, Use(id) PROVE IndexInv'
    <3> DEFINE ix == [index EXCEPT !.active = id]
    <3>1. ix = [named |-> index.named, active |-> id, chosen |-> index.chosen,
                entry |-> index.entry]
      BY DEF SoundIndex, IndexRecord
    <3>2. SoundIndex(ix)
      BY <2>2, <3>1 DEF Use, SoundIndex, IndexRecord, Decodes
    <3>3. (CallRecord /\ SoundIndex(call.index))'
      BY <2>2, <3>2, EnterSound DEF Use
    <3> QED BY <2>2, <3>3 DEF Use
  <2>3. ASSUME NEW id \in Ids, SaveSelections(id) PROVE IndexInv'
    <3>1. PICK chosen \in {index.chosen \cup {id}, index.chosen \ {id}} :
            Enter("choose", id, SaveIndex, [index EXCEPT !.chosen = chosen])
      BY <2>3 DEF SaveSelections
    <3> DEFINE ix == [index EXCEPT !.chosen = chosen]
    <3>2. ix = [named |-> index.named, active |-> index.active,
                chosen |-> chosen, entry |-> index.entry]
      BY DEF SoundIndex, IndexRecord
    <3>3. SoundIndex(ix)
      BY <2>3, <3>2 DEF SaveSelections, SoundIndex, IndexRecord, Decodes
    <3>4. (CallRecord /\ SoundIndex(call.index))'
      BY <3>1, <3>3, EnterSound
    <3> QED BY <2>3, <3>4 DEF SaveSelections
  <2>4. ASSUME NEW id \in Ids, Remove(id) PROVE IndexInv'
    <3>1. (CallRecord /\ SoundIndex(call.index))'
      BY <2>4, WithoutIsSound, EnterSound DEF Remove
    <3> QED BY <2>4, <3>1 DEF Remove
  <2>5. ASSUME NEW c \in Clients, CommitUpdate(c) PROVE IndexInv'
    <3> DEFINE j == job[c]
               ix == [index EXCEPT !.entry[j.id] = NewEntry(j)]
    <3>1. ix = [named |-> index.named, active |-> index.active,
                chosen |-> index.chosen,
                entry |-> [index.entry EXCEPT ![j.id] = NewEntry(j)]]
      BY DEF SoundIndex, IndexRecord
    <3>2. SoundIndex(ix)
      BY <3>1 DEF SoundIndex, IndexRecord, Decodes
    <3>3. Enter(IF j.got = NotModified THEN "touch" ELSE "refresh", j.id,
                CommitWrites(j), ix)
      BY <2>5 DEF CommitUpdate
    <3>4. (CallRecord /\ SoundIndex(call.index))'
      BY <3>2, <3>3, EnterSound
    <3> QED BY <2>5, <3>4 DEF CommitUpdate
  <2>6. CASE RestoreCheckpoint
    <3>1. PICK todo : Enter("restore", NoProfile, todo, saved.index)
      BY <2>6 DEF RestoreCheckpoint
    <3>2. (CallRecord /\ SoundIndex(call.index))'
      BY <2>6, <3>1, EnterSound DEF RestoreCheckpoint
    <3> QED BY <2>6, <3>2 DEF RestoreCheckpoint
  <2>7. ASSUME NEW covers, TakeCheckpoint(covers) PROVE IndexInv'
    BY <2>7 DEF TakeCheckpoint, CallRecord
  <2>8. CASE StepOK
    <3>1. SoundIndex(index')
      BY <2>8 DEF StepOK, Indexed
    <3>2. (call # Idle => CallRecord /\ SoundIndex(call.index))'
      BY <2>8, GoingKeepsCall DEF StepOK
    <3> QED BY <2>8, <3>1, <3>2 DEF StepOK, SoundIndex, IndexRecord, Decodes
  <2>9. CASE StepFails
    <3>1. SoundIndex(index')
      BY <2>9, FailedKeepsSound DEF StepFails
    <3>2. (call # Idle => CallRecord /\ SoundIndex(call.index))'
      BY <2>9, GoingKeepsCall DEF StepFails
    <3> QED BY <2>9, <3>1, <3>2 DEF StepFails, SoundIndex, IndexRecord, Decodes
  <2>10. CASE UndoOK
    <3>1. (call # Idle => CallRecord /\ SoundIndex(call.index))'
      BY <2>10, GoingKeepsCall DEF UndoOK
    <3> QED BY <2>10, <3>1 DEF UndoOK, SoundIndex, IndexRecord, Decodes
  <2>11. CASE UndoFails
    <3>1. SoundIndex(index')
      BY <2>11, FailedKeepsSound DEF UndoFails
    <3>2. (call # Idle => CallRecord /\ SoundIndex(call.index))'
      BY <2>11, GoingKeepsCall DEF UndoFails
    <3> QED BY <2>11, <3>1, <3>2 DEF UndoFails, SoundIndex, IndexRecord, Decodes
  <2>12. CASE Kill
    BY <2>12 DEF Kill, SoundIndex, IndexRecord, Decodes
  <2>13. CASE DropCheckpoint
    BY <2>13 DEF DropCheckpoint, CallRecord, SoundIndex, IndexRecord, Decodes
  <2>14. ASSUME NEW id \in Ids,
                Publish(id) \/ \E c \in Clients : ReadBaseline(c, id)
         PROVE IndexInv'
    BY <2>14 DEF Publish, ReadBaseline, CallRecord, SoundIndex, IndexRecord, Decodes
  <2>15. ASSUME NEW c \in Clients, Download(c) \/ Abandon(c) \/ RefuseStale(c)
         PROVE IndexInv'
    BY <2>15 DEF Download, Abandon, RefuseStale,
                 CallRecord, SoundIndex, IndexRecord, Decodes
  <2>16. CASE UNCHANGED vars
    BY <2>16 DEF vars, CallRecord, SoundIndex, IndexRecord, Decodes
  <2> QED BY <2>1, <2>2, <2>3, <2>4, <2>5, <2>6, <2>7, <2>8, <2>9, <2>10,
             <2>11, <2>12, <2>13, <2>14, <2>15, <2>16 DEF Next
<1>3. IndexInv => Loadable
  BY DEF IndexInv, SoundIndex, Loadable
<1> QED BY <1>1, <1>2, <1>3, PTL DEF Spec

-----------------------------------------------------------------------------
(* The writes of a call, and the lists they come in.                       *)
Src(id, v) == [file |-> "source", id |-> id, to |-> v]
Cfg(id, v) == [file |-> "config", id |-> id, to |-> v]
Idx        == [file |-> "index", id |-> NoProfile, to |-> 0]
Dir(id)    == [file |-> "directory", id |-> id, to |-> 0]

LEMMA Lists ==
  ASSUME NEW id, NEW doc
  PROVE  /\ Put(id, doc) = <<Src(id, doc.source), Cfg(id, doc.config)>>
         /\ PutSource(id, doc) = <<Src(id, doc.source)>>
         /\ SaveIndex = <<Idx>>
         /\ Drop(id) = <<Dir(id)>>
         /\ Put(id, doc) \o SaveIndex = <<Src(id, doc.source), Cfg(id, doc.config), Idx>>
         /\ <<>> \o SaveIndex = <<Idx>>
         /\ SaveIndex \o Drop(id) = <<Idx, Dir(id)>>
<1>1. Put(id, doc) = <<Src(id, doc.source), Cfg(id, doc.config)>>
  BY DEF Put, Src, Cfg
<1>2. PutSource(id, doc) = <<Src(id, doc.source)>>
  BY DEF Put, PutSource, Src
<1>3. SaveIndex = <<Idx>> /\ Drop(id) = <<Dir(id)>>
  BY DEF SaveIndex, Drop, Idx, Dir
<1>4. \A a, b, c : /\ <<a, b>> \o <<c>> = <<a, b, c>>
                   /\ <<>> \o <<c>> = <<c>>
                   /\ <<a>> \o <<c>> = <<a, c>>
  <2> TAKE a, b, c
  <2> DEFINE S == {a, b, c}
  <2>1. <<a, b>> \in Seq(S) /\ <<c>> \in Seq(S) /\ <<a>> \in Seq(S) /\ <<>> \in Seq(S)
    OBVIOUS
  <2>2. <<a, b, c>> \in Seq(S) /\ <<a, c>> \in Seq(S)
    OBVIOUS
  <2> HIDE DEF S
  <2>3. <<>> \o <<c>> = <<c>>
    BY <2>1, ConcatEmptySeq
  <2>4. <<a>> \o <<c>> = <<a, c>>
    <3> DEFINE s == <<a>> \o <<c>>
    <3>1. Len(<<a>>) = 1 /\ Len(<<c>>) = 1 /\ Len(<<a, c>>) = 2
      OBVIOUS
    <3>2. s \in Seq(S) /\ Len(s) = 2 /\ s[1] = a /\ s[2] = c
      BY <2>1, <3>1, ConcatProperties
    <3> HIDE DEF s
    <3>3. \A i \in 1 .. 2 : s[i] = <<a, c>>[i]
      BY <3>2
    <3>4. s = <<a, c>>
      BY <2>2, <3>1, <3>2, <3>3, SeqEqual
    <3> QED BY <3>4 DEF s
  <2>5. <<a, b>> \o <<c>> = <<a, b, c>>
    <3> DEFINE s == <<a, b>> \o <<c>>
    <3>1. Len(<<a, b>>) = 2 /\ Len(<<c>>) = 1 /\ Len(<<a, b, c>>) = 3
      OBVIOUS
    <3>2. s \in Seq(S) /\ Len(s) = 3 /\ s[1] = a /\ s[2] = b /\ s[3] = c
      BY <2>1, <3>1, ConcatProperties
    <3> HIDE DEF s
    <3>3. \A i \in 1 .. 3 : s[i] = <<a, b, c>>[i]
      BY <3>2
    <3>4. s = <<a, b, c>>
      BY <2>2, <3>1, <3>2, <3>3, SeqEqual
    <3> QED BY <3>4 DEF s
  <2> QED BY <2>3, <2>4, <2>5
<1> QED BY <1>1, <1>2, <1>3, <1>4

LEMMA Heads ==
  ASSUME NEW a, NEW b, NEW c
  PROVE  /\ Head(<<a>>) = a /\ Tail(<<a>>) = <<>>
         /\ Head(<<a, b>>) = a /\ Tail(<<a, b>>) = <<b>>
         /\ Head(<<a, b, c>>) = a /\ Tail(<<a, b, c>>) = <<b, c>>
         /\ <<a>> # <<>> /\ <<a, b>> # <<>> /\ <<a, b, c>> # <<>>
OBVIOUS

LEMMA Typed ==
  ASSUME NEW S, NEW a \in S, NEW b \in S, NEW c \in S
  PROVE  /\ <<a>> \in Seq(S) /\ <<a, b>> \in Seq(S) /\ <<a, b, c>> \in Seq(S)
         /\ <<>> \in Seq(S)
OBVIOUS

LEMMA Half ==
  ASSUME NEW n \in Nat
  PROVE  /\ \A k \in 1 .. 2 * n : (k + 1) \div 2 \in 1 .. n
         /\ \A j \in 1 .. n : (2 * j) \in 1 .. 2 * n /\ (2 * j - 1) \in 1 .. 2 * n
         /\ \A j \in 1 .. n : (2 * j + 1) \div 2 = j /\ (2 * j - 1 + 1) \div 2 = j
         /\ \A j \in 1 .. n : (2 * j) % 2 = 0 /\ (2 * j - 1) % 2 = 1
         /\ \A k \in 1 .. 2 * n : k % 2 \in {0, 1}
OBVIOUS

-----------------------------------------------------------------------------
(* Types.                                                                  *)

Writes == {w \in Write : w.file # "index" => w.id \in Ids}

CallTypes ==
  call # Idle =>
    /\ call \in Call
    /\ call.todo \in Seq(Writes) /\ call.todo # <<>>
    /\ call.name # "restore" => call.id \in Ids
    /\ call.name = "restore" => saved # NoCheckpoint

Types ==
  /\ docs \in [Ids -> Doc] /\ index \in Index
  /\ upstream \in [Ids -> 1 .. MaxVersion]
  /\ born \in [Ids -> Nat]
  /\ job \in [Clients -> Job \cup {NoJob}]
  /\ \A c \in Clients : job[c] # NoJob => job[c].entry.updated < MaxRev
  /\ CallTypes
  /\ saved \in Checkpoint \cup {NoCheckpoint}
  /\ marred \subseteq Ids /\ faults \in 0 .. MaxFaults

LEMMA WritesAre ==
  ASSUME NEW id \in Ids, NEW v \in Versions
  PROVE  /\ Src(id, v) \in Writes /\ Cfg(id, v) \in Writes
         /\ Idx \in Writes /\ Dir(id) \in Writes
BY BoundAssumption DEF Writes, Write, Src, Cfg, Idx, Dir, Versions

LEMMA IndexAlone == SaveIndex = <<Idx>> /\ SaveIndex \in Seq(Writes) /\ SaveIndex # <<>>
<1>1. SaveIndex = <<Idx>>
  BY DEF SaveIndex, Idx
<1>2. Idx \in Writes
  BY BoundAssumption DEF Idx, Writes, Write, Versions
<1> QED BY <1>1, <1>2, Typed, Heads

LEMMA RemovalIs ==
  ASSUME NEW id \in Ids
  PROVE  /\ Removal(id) = <<Idx, Dir(id)>>
         /\ Removal(id) \in Seq(Writes) /\ Removal(id) # <<>>
<1>1. Removal(id) = <<Idx, Dir(id)>>
  <2>1. SaveIndex \o Drop(id) = <<Idx, Dir(id)>>
    BY Lists
  <2> QED BY <2>1 DEF Removal
<1>2. 0 \in Versions
  BY BoundAssumption DEF Versions
<1>3. Idx \in Writes /\ Dir(id) \in Writes
  BY <1>2, WritesAre
<1>4. <<Idx, Dir(id)>> \in Seq(Writes)
  BY <1>3, Typed
<1> QED BY <1>1, <1>4, Heads

LEMMA AddingIs ==
  ASSUME NEW id \in Ids, NEW v \in Versions
  PROVE  LET todo == Put(id, Of(v)) \o SaveIndex
         IN  /\ todo = <<Src(id, v), Cfg(id, v), Idx>>
             /\ todo \in Seq(Writes) /\ todo # <<>>
<1> DEFINE doc == Of(v)
<1>1. doc.source = v /\ doc.config = v
  BY DEF Of
<1> HIDE DEF doc
<1>2. Put(id, doc) \o SaveIndex = <<Src(id, v), Cfg(id, v), Idx>>
  BY <1>1, Lists
<1>3. Src(id, v) \in Writes /\ Cfg(id, v) \in Writes /\ Idx \in Writes
  BY WritesAre
<1>4. <<Src(id, v), Cfg(id, v), Idx>> \in Seq(Writes)
  BY <1>3, Typed
<1> QED BY <1>2, <1>4, Heads DEF doc

LEMMA EnterTypes ==
  ASSUME Types, NEW name \in Names, NEW id \in Ids \cup {NoProfile},
         NEW todo \in Seq(Writes), todo # <<>>, NEW ix \in Index,
         name # "restore" => id \in Ids, name = "restore" => saved # NoCheckpoint,
         UNCHANGED saved, Enter(name, id, todo, ix)
  PROVE  CallTypes'
<1> DEFINE r == [name |-> name, id |-> id, todo |-> todo, index |-> ix,
                 before |-> [docs |-> docs, index |-> index], phase |-> "doing"]
<1>1. todo \in Seq(Write)
  BY SeqMonotonic DEF Writes
<1>2. r \in Call
  BY <1>1 DEF Call, Types
<1>3. call' = r
  BY DEF Enter
<1> QED BY <1>2, <1>3 DEF CallTypes

LEMMA GoingTypes ==
  ASSUME Types, call # Idle, NEW todo \in Seq(Writes),
         NEW phase \in {"doing", "undoing", "dirty"}, Going(todo, phase),
         todo # <<>> => UNCHANGED saved
  PROVE  CallTypes'
<1>1. CASE todo = <<>>
  BY <1>1 DEF Going, CallTypes
<1>2. CASE todo # <<>>
  <2>1. /\ call \in Call /\ (call.name # "restore" => call.id \in Ids)
        /\ call.name = "restore" => saved # NoCheckpoint
    BY DEF Types, CallTypes
  <2>2. call' = [call EXCEPT !.todo = todo, !.phase = phase]
    BY <1>2 DEF Going
  <2>3. todo \in Seq(Write)
    BY SeqMonotonic DEF Writes
  <2>4. call' \in Call /\ call'.name = call.name /\ call'.id = call.id
        /\ call'.todo = todo
    BY <2>1, <2>2, <2>3 DEF Call
  <2> QED BY <1>2, <2>1, <2>4 DEF CallTypes
<1> QED BY <1>1, <1>2

LEMMA Taken ==
  ASSUME Types, call # Idle
  PROVE  Next1 \in Writes /\ Rest \in Seq(Writes)
BY HeadTailProperties DEF Types, CallTypes, Next1, Rest

LEMMA WrittenTypes ==
  ASSUME Types, call # Idle, NEW w \in Writes
  PROVE  /\ Written(w) \in [Ids -> Doc] /\ Indexed(w) \in Index
         /\ Leftovers(w) \subseteq [Ids -> Doc]
<1>1. docs \in [Ids -> Doc] /\ index \in Index /\ call \in Call /\ 0 \in Versions
  BY BoundAssumption DEF Types, CallTypes, Versions
<1>2. w \in Write /\ (w.file # "index" => w.id \in Ids) /\ w.to \in Versions
  BY DEF Writes, Write
<1>3. Written(w) \in [Ids -> Doc]
  <2>1. CASE w.file = "index"
    BY <1>1, <2>1 DEF Written
  <2>2. CASE w.file = "directory"
    BY <1>1, <2>2 DEF Written, Gone, Doc
  <2>3. CASE w.file = "source"
    BY <1>1, <1>2, <2>3 DEF Written, Doc
  <2>4. CASE w.file = "config"
    BY <1>1, <1>2, <2>4 DEF Written, Doc
  <2> QED BY <1>2, <2>1, <2>2, <2>3, <2>4 DEF Write
<1>4. Indexed(w) \in Index
  BY <1>1 DEF Indexed, Call
<1>5. Leftovers(w) \subseteq [Ids -> Doc]
  <2>1. CASE w.file = "directory"
    <3> SUFFICES ASSUME NEW x \in Leftovers(w) PROVE x \in [Ids -> Doc]
      OBVIOUS
    <3>1. PICK s \in {0, docs[w.id].source}, f \in {0, docs[w.id].config} :
            x = [docs EXCEPT ![w.id] = [source |-> s, config |-> f]]
      BY <2>1 DEF Leftovers
    <3>2. docs[w.id] \in Doc
      BY <1>1, <1>2, <2>1
    <3>3. [source |-> s, config |-> f] \in Doc
      BY <1>1, <3>2 DEF Doc
    <3> QED BY <1>1, <3>1, <3>3
  <2>2. CASE w.file # "directory"
    BY <1>1, <2>2 DEF Leftovers
  <2> QED BY <2>1, <2>2
<1> QED BY <1>3, <1>4, <1>5

LEMMA UndoTypes ==
  ASSUME Types, call # Idle, NEW w
  PROVE  Undo(w) \in Seq(Writes)
<1>0. <<>> \in Seq(Writes)
  BY EmptySeq
<1>1. CASE call.name = "add"
  <2>1. Undo(w) = <<Dir(call.id)>>
    BY <1>1 DEF Undo, Drop, Dir
  <2>2. call.id \in Ids /\ 0 \in Versions
    BY <1>1, BoundAssumption DEF Types, CallTypes, Versions
  <2>3. Dir(call.id) \in Writes
    BY <2>2, WritesAre
  <2> QED BY <2>1, <2>3, Typed
<1>2. CASE call.name = "refresh"
  <2> DEFINE old == call.before.docs[call.id]
  <2>1. call.id \in Ids /\ old \in Doc
    BY <1>2 DEF Types, CallTypes, Call
  <2>2. Src(call.id, old.source) \in Writes /\ Cfg(call.id, old.config) \in Writes
    BY <2>1, WritesAre DEF Doc
  <2>3. PutSource(call.id, old) \in Seq(Writes) /\ Put(call.id, old) \in Seq(Writes)
    BY ZenonT(40), <2>2, Lists, Typed
  <2> QED BY <1>0, <1>2, <2>3 DEF Undo, UndoCommit
<1>3. CASE call.name \notin {"add", "refresh"}
  BY <1>0, <1>3 DEF Undo
<1> QED BY <1>1, <1>2, <1>3

(* What a restore writes: both documents of every saved profile, the       *)
(* index, then the directories that go.                                    *)
LEMMA RestoringIs ==
  ASSUME Types, saved # NoCheckpoint,
         NEW back \in Orders(saved.covers), NEW away \in Orders(Added)
  PROVE  LET n == Cardinality(saved.covers)
             m == Cardinality(Added)
             T == Restoring(back, away)
         IN  /\ n \in Nat /\ m \in Nat
             /\ T \in Seq(Writes) /\ Len(T) = 2 * n + 1 + m
             /\ \A k \in 1 .. 2 * n :
                  /\ (k + 1) \div 2 \in 1 .. n
                  /\ LET i == back[(k + 1) \div 2] IN
                     T[k] = IF k % 2 = 1 THEN Src(i, saved.docs[i].source)
                                         ELSE Cfg(i, saved.docs[i].config)
             /\ T[2 * n + 1] = Idx
             /\ \A k \in 1 .. m : T[2 * n + 1 + k] = Dir(away[k])
<1> DEFINE n == Cardinality(saved.covers)
           m == Cardinality(Added)
           Saved(i) == Put(i, saved.docs[i])
           put  == [k \in 1 .. 2 * Len(back) |-> Saved(back[(k + 1) \div 2])[2 - (k % 2)]]
           drop == [k \in 1 .. Len(away) |-> Drop(away[k])[1]]
<1>0. saved \in Checkpoint /\ 0 \in Versions
  BY BoundAssumption DEF Types, Versions
<1>1. n \in Nat /\ m \in Nat
  <2>1. saved.covers \subseteq Ids /\ Added \subseteq Ids
    BY <1>0 DEF Added, Checkpoint
  <2> QED BY <2>1, IdAssumption, FS_Subset, FS_CardinalityType
<1>2. back \in [1 .. n -> saved.covers] /\ away \in [1 .. m -> Added]
  BY DEF Orders
<1>3. Len(back) = n /\ Len(away) = m
  BY <1>1, <1>2
<1> HIDE DEF n, m
<1>4. \A k \in 1 .. 2 * n :
        /\ (k + 1) \div 2 \in 1 .. n
        /\ back[(k + 1) \div 2] \in Ids
        /\ k % 2 \in {0, 1}
  BY <1>0, <1>1, <1>2, Half DEF Checkpoint
<1>5. \A k \in 1 .. 2 * n :
        LET i == back[(k + 1) \div 2] IN
        put[k] = IF k % 2 = 1 THEN Src(i, saved.docs[i].source)
                              ELSE Cfg(i, saved.docs[i].config)
  <2> TAKE k \in 1 .. 2 * n
  <2> DEFINE i == back[(k + 1) \div 2]
  <2>1. put[k] = Saved(i)[2 - (k % 2)]
    BY <1>3
  <2> HIDE DEF put
  <2>2. Saved(i) = <<Src(i, saved.docs[i].source), Cfg(i, saved.docs[i].config)>>
    BY Lists
  <2>3. CASE k % 2 = 1
    BY <2>1, <2>2, <2>3
  <2>4. CASE k % 2 = 0
    BY <2>1, <2>2, <2>4
  <2> QED BY <1>4, <2>3, <2>4
<1>6. \A k \in 1 .. m : drop[k] = Dir(away[k])
  <2> TAKE k \in 1 .. m
  <2>1. drop[k] = Drop(away[k])[1]
    BY <1>3
  <2> QED BY <2>1 DEF Drop, Dir
<1>7. put \in Seq(Writes) /\ Len(put) = 2 * n
  <2>1. \A k \in 1 .. 2 * n : put[k] \in Writes
    <3> TAKE k \in 1 .. 2 * n
    <3> DEFINE i == back[(k + 1) \div 2]
    <3>1. i \in Ids /\ saved.docs[i] \in Doc
      BY <1>0, <1>4 DEF Checkpoint
    <3>2. Src(i, saved.docs[i].source) \in Writes /\ Cfg(i, saved.docs[i].config) \in Writes
      BY <3>1, WritesAre DEF Doc
    <3> QED BY <1>5, <3>2
  <2>2. put \in [1 .. 2 * n -> Writes]
    BY <1>3, <2>1
  <2> HIDE DEF put
  <2>3. 2 * n \in Nat
    BY <1>1
  <2> QED BY <2>2, <2>3
<1>8. drop \in Seq(Writes) /\ Len(drop) = m
  <2>1. \A k \in 1 .. m : drop[k] \in Writes
    BY <1>0, <1>2, <1>6, WritesAre DEF Added
  <2>2. drop \in [1 .. m -> Writes]
    BY <1>3, <2>1
  <2> HIDE DEF drop
  <2> QED BY <1>1, <2>2
<1>9. SaveIndex \in Seq(Writes) /\ Len(SaveIndex) = 1 /\ SaveIndex[1] = Idx
  <2>1. Idx \in Writes
    BY <1>0 DEF Idx, Writes, Write
  <2>2. SaveIndex = <<Idx>>
    BY DEF SaveIndex, Idx
  <2> QED BY <2>1, <2>2, Typed
<1> HIDE DEF put, drop
<1> DEFINE T1 == put \o SaveIndex
           T  == T1 \o drop
<1>10. /\ T1 \in Seq(Writes) /\ Len(T1) = 2 * n + 1
       /\ \A k \in 1 .. 2 * n : T1[k] = put[k]
       /\ T1[2 * n + 1] = Idx
  <2>1. /\ T1 \in Seq(Writes) /\ Len(T1) = Len(put) + Len(SaveIndex)
        /\ \A i \in 1 .. Len(put) + Len(SaveIndex) :
             T1[i] = IF i <= Len(put) THEN put[i] ELSE SaveIndex[i - Len(put)]
    BY <1>7, <1>9, ConcatProperties
  <2> HIDE DEF T1
  <2> QED BY <1>1, <1>7, <1>9, <2>1
<1> HIDE DEF T1
<1>11. /\ T \in Seq(Writes) /\ Len(T) = 2 * n + 1 + m
       /\ \A k \in 1 .. 2 * n + 1 : T[k] = T1[k]
       /\ \A k \in 1 .. m : T[2 * n + 1 + k] = drop[k]
  <2>1. /\ T \in Seq(Writes) /\ Len(T) = Len(T1) + Len(drop)
        /\ \A i \in 1 .. Len(T1) + Len(drop) :
             T[i] = IF i <= Len(T1) THEN T1[i] ELSE drop[i - Len(T1)]
    BY <1>8, <1>10, ConcatProperties
  <2> HIDE DEF T
  <2> QED BY <1>1, <1>8, <1>10, <2>1
<1>12. T = Restoring(back, away)
  BY DEF T, T1, put, drop, Restoring
<1> HIDE DEF T
<1>13. \A k \in 1 .. 2 * n : T[k] = put[k]
  BY <1>1, <1>10, <1>11
<1>14. T[2 * n + 1] = Idx
  BY <1>1, <1>10, <1>11
<1> QED BY <1>1, <1>4, <1>5, <1>6, <1>11, <1>12, <1>13, <1>14 DEF n, m

(* The index a refresh means to write.                                     *)
LEMMA NewEntryTypes ==
  ASSUME Types, NEW c \in Clients, job[c] # NoJob, job[c].got # Pending
  PROVE  NewEntry(job[c]) \in Entry
<1>1. job[c] \in Job
  BY DEF Types
<1>2. job[c].id \in Remote /\ job[c].got # NotModified => job[c].got \in Versions
  BY <1>1 DEF Job
<1>3. job[c].entry.etag \in Versions /\ job[c].at \in 0 .. MaxRev
  BY <1>1 DEF Job, Entry
<1> QED BY <1>2, <1>3 DEF NewEntry, Entry

LEMMA CommitTypes ==
  ASSUME Types, NEW c \in Clients, job[c] # NoJob, job[c].got # Pending
  PROVE  /\ CommitWrites(job[c]) \in Seq(Writes) /\ CommitWrites(job[c]) # <<>>
         /\ job[c].got \in Versions /\ job[c].got # NotModified => 
              \/ CommitWrites(job[c]) = <<Idx>>
              \/ CommitWrites(job[c]) = <<Src(job[c].id, job[c].got),
                                          Cfg(job[c].id, job[c].got), Idx>>
         /\ job[c].got = NotModified => CommitWrites(job[c]) = <<Idx>>
<1> DEFINE j == job[c]
<1>1. j \in Job /\ Idx \in Writes
  BY BoundAssumption DEF Types, Idx, Writes, Write, Versions
<1>2. CASE j.got = NotModified \/ docs[j.id] = Of(j.got)
  <2>1. CommitWrites(j) = <<Idx>>
    BY <1>2, Lists DEF CommitWrites, ChangedDocuments
  <2> QED BY <1>1, <2>1, Typed, Heads
<1>3. CASE ~(j.got = NotModified \/ docs[j.id] = Of(j.got))
  <2>1. j.got \in Versions /\ j.id \in Ids
    BY <1>1, <1>3 DEF Job
  <2>2. Put(j.id, Of(j.got)) \o SaveIndex
          = <<Src(j.id, Of(j.got).source), Cfg(j.id, Of(j.got).config), Idx>>
    BY Lists
  <2>3. Of(j.got).source = j.got /\ Of(j.got).config = j.got
    BY DEF Of
  <2>4. CommitWrites(j) = <<Src(j.id, j.got), Cfg(j.id, j.got), Idx>>
    BY <1>3, <2>2, <2>3 DEF CommitWrites, ChangedDocuments
  <2>5. Src(j.id, j.got) \in Writes /\ Cfg(j.id, j.got) \in Writes
    BY <2>1, WritesAre
  <2>6. <<Src(j.id, j.got), Cfg(j.id, j.got), Idx>> \in Seq(Writes)
    BY <1>1, <2>5, Typed
  <2>7. <<Src(j.id, j.got), Cfg(j.id, j.got), Idx>> # <<>>
    BY Heads
  <2> QED BY <1>3, <2>1, <2>4, <2>6, <2>7
<1> QED BY <1>2, <1>3

LEMMA TypesStart == Init => Types
BY BoundAssumption, FaultAssumption
   DEF Init, Types, CallTypes, Doc, Gone, Versions, Index, Entry, NoEntry

LEMMA TypesKept == Types /\ [Next]_vars => Types'
<1> SUFFICES ASSUME Types, [Next]_vars PROVE Types'
  OBVIOUS
<1> USE DEF Types
<1>0. index \in Index /\ 0 \in Versions /\ 1 \in 0 .. MaxRev
  BY BoundAssumption DEF Versions
<1>1. ASSUME NEW id \in Ids, Add(id) PROVE Types'
  <2>2. born' \in [Ids -> Nat]
    <3>1. IsFiniteSet({i \in Ids : born[i] > 0})
      BY IdAssumption, FS_Subset, {i \in Ids : born[i] > 0} \subseteq Ids
    <3>2. Cardinality({i \in Ids : born[i] > 0}) \in Nat
      BY <3>1, FS_CardinalityType
    <3> QED BY <1>1, <3>2 DEF Add
  <2>3. PICK v \in 1 .. upstream[id] :
          Enter("add", id, Put(id, Of(v)) \o SaveIndex,
           [index EXCEPT
              !.named = @ \cup {id},
              !.active = IF @ = NoProfile THEN id ELSE @,
              !.entry[id] = [etag |-> IF id \in Remote THEN v ELSE 0,
                             updated |-> 1]])
    BY <1>1 DEF Add
  <2> DEFINE e == [etag |-> IF id \in Remote THEN v ELSE 0, updated |-> 1]
  <2>4. v \in Versions
    BY BoundAssumption DEF Versions
  <2>5. e \in Entry
    BY <1>0, <2>4 DEF Entry
  <2> HIDE DEF e
  <2> DEFINE ix == [index EXCEPT
                      !.named = index.named \cup {id},
                      !.active = IF index.active = NoProfile THEN id ELSE index.active,
                      !.entry = [index.entry EXCEPT ![id] = e]]
             todo == Put(id, Of(v)) \o SaveIndex
  <2>6. [index.entry EXCEPT ![id] = e] \in [Ids -> Entry]
    BY <1>0, <2>5 DEF Index
  <2>7. ix \in Index
    BY <1>0, <2>6 DEF Index
  <2>8. todo = <<Src(id, v), Cfg(id, v), Idx>>
    BY <2>4, AddingIs
  <2>9. todo \in Seq(Writes) /\ todo # <<>>
    BY <2>4, AddingIs
  <2>10. Enter("add", id, todo, ix)
    BY <2>3 DEF e
  <2> HIDE DEF todo, ix
  <2>11. CallTypes'
    BY <1>1, <2>7, <2>9, <2>10, EnterTypes DEF Names, Add
  <2> QED BY <1>1, <2>2, <2>11 DEF Add
<1>2. ASSUME NEW id \in Ids, Use(id) PROVE Types'
  <2>1. [index EXCEPT !.active = id] \in Index
    BY <1>0 DEF Index
  <2>2. SaveIndex \in Seq(Writes) /\ SaveIndex # <<>>
    BY IndexAlone
  <2>3. CallTypes'
    BY <1>2, <2>1, <2>2, EnterTypes DEF Use, Names
  <2> QED BY <1>2, <2>3 DEF Use
<1>3. ASSUME NEW id \in Ids, SaveSelections(id) PROVE Types'
  <2>1. PICK chosen \in {index.chosen \cup {id}, index.chosen \ {id}} :
          Enter("choose", id, SaveIndex, [index EXCEPT !.chosen = chosen])
    BY <1>3 DEF SaveSelections
  <2>2. [index EXCEPT !.chosen = chosen] \in Index
    BY <1>0 DEF Index
  <2>3. SaveIndex \in Seq(Writes) /\ SaveIndex # <<>>
    BY IndexAlone
  <2>4. CallTypes'
    BY <1>3, <2>1, <2>2, <2>3, EnterTypes DEF Names, SaveSelections
  <2> QED BY <1>3, <2>4 DEF SaveSelections
<1>4. ASSUME NEW id \in Ids, Remove(id) PROVE Types'
  <2> DEFINE first == First(index.named \ {id})
  <2>1. first \in Ids \cup {NoProfile}
    BY <1>0, FirstIsOne DEF First, Index
  <2> HIDE DEF first
  <2>2. [index.entry EXCEPT ![id] = NoEntry] \in [Ids -> Entry]
    <3>1. NoEntry \in Entry
      BY <1>0, BoundAssumption DEF NoEntry, Entry
    <3> QED BY <1>0, <3>1 DEF Index
  <2> DEFINE ix == [index EXCEPT !.named = index.named \ {id},
                      !.chosen = index.chosen \ {id},
                      !.active = IF index.active = id THEN first ELSE index.active,
                      !.entry = [index.entry EXCEPT ![id] = NoEntry]]
  <2>3. ix = Without(id)
    BY DEF Without, Leaving, first
  <2>4. ix \in Index
    BY <1>0, <2>1, <2>2 DEF Index
  <2>5. Removal(id) \in Seq(Writes) /\ Removal(id) # <<>>
    BY RemovalIs
  <2> HIDE DEF ix
  <2>6. CallTypes'
    BY <1>4, <2>3, <2>4, <2>5, EnterTypes DEF Remove, Names
  <2> QED BY <1>4, <2>6 DEF Remove
<1>5. ASSUME NEW c \in Clients, CommitUpdate(c) PROVE Types'
  <2> DEFINE j == job[c]
  <2>1. j \in Job /\ NewEntry(j) \in Entry
    BY <1>5, NewEntryTypes DEF CommitUpdate
  <2>2. [index.entry EXCEPT ![j.id] = NewEntry(j)] \in [Ids -> Entry]
    BY <1>0, <2>1 DEF Index
  <2> DEFINE ix == [index EXCEPT !.entry = [index.entry EXCEPT ![j.id] = NewEntry(j)]]
             name == IF j.got = NotModified THEN "touch" ELSE "refresh"
  <2>3. ix \in Index
    BY <1>0, <2>2 DEF Index
  <2>4. Enter(name, j.id, CommitWrites(j), ix) /\ job' = [job EXCEPT ![c] = NoJob]
    BY <1>5 DEF CommitUpdate
  <2>5. CommitWrites(j) \in Seq(Writes) /\ CommitWrites(j) # <<>>
    BY <1>5, CommitTypes DEF CommitUpdate
  <2>6. name \in Names /\ j.id \in Ids
    BY <2>1 DEF Names, Job
  <2> HIDE DEF ix, name
  <2>7. CallTypes'
    <3>1. UNCHANGED saved /\ (name # "restore")
      BY <1>5 DEF CommitUpdate, name
    <3> HIDE DEF j
    <3> QED BY <2>3, <2>4, <2>5, <2>6, <3>1, EnterTypes
  <2> HIDE DEF j
  <2> QED BY <1>5, <2>4, <2>7 DEF CommitUpdate
<1>6. CASE RestoreCheckpoint
  <2>1. PICK back \in Orders(saved.covers), away \in Orders(Added) :
          Enter("restore", NoProfile, Restoring(back, away), saved.index)
    BY <1>6 DEF RestoreCheckpoint
  <2>2. saved \in Checkpoint /\ saved # NoCheckpoint
    BY <1>6 DEF RestoreCheckpoint
  <2> DEFINE todo == Restoring(back, away)
  <2>3. todo \in Seq(Writes) /\ Len(todo) > 0
    BY <2>2, RestoringIs
  <2> HIDE DEF todo
  <2>4. todo # <<>>
    BY <2>3
  <2>5. saved.index \in Index
    BY <2>2 DEF Checkpoint
  <2>6. CallTypes'
    BY <1>6, <2>1, <2>2, <2>3, <2>4, <2>5, EnterTypes DEF Names, todo, RestoreCheckpoint
  <2> QED BY <1>6, <2>6 DEF RestoreCheckpoint
<1>7. ASSUME NEW covers \in SUBSET index.named, TakeCheckpoint(covers) PROVE Types'
  <2>1. saved' \in Checkpoint
    BY <1>0, <1>7 DEF TakeCheckpoint, Checkpoint, Index
  <2> QED BY <1>7, <2>1 DEF TakeCheckpoint, CallTypes
<1>8. CASE StepOK
  <2>1. Next1 \in Writes /\ Rest \in Seq(Writes) /\ call # Idle /\ call \in Call
    BY <1>8, Taken DEF StepOK, CallTypes
  <2>2. docs' \in [Ids -> Doc] /\ index' \in Index
    BY <1>8, <2>1, WrittenTypes DEF StepOK
  <2>3. CallTypes'
    BY <1>8, <2>1, GoingTypes DEF StepOK, Finishes
  <2>4. Finishes("restore") => saved.marred \subseteq Ids
    BY <2>1 DEF Finishes, CallTypes, Checkpoint
  <2> QED BY <1>8, <2>1, <2>2, <2>3, <2>4 DEF StepOK
<1>9. CASE StepFails
  <2>1. Next1 \in Writes /\ call # Idle /\ call \in Call
    BY <1>9, Taken DEF StepFails, CallTypes
  <2>2. docs' \in [Ids -> Doc] /\ index' \in Index
    BY <1>9, <2>1, WrittenTypes DEF StepFails, Failed
  <2>3. Undo(Next1) \in Seq(Writes)
    BY <2>1, UndoTypes
  <2>4. CallTypes'
    BY <1>9, <2>1, <2>3, GoingTypes DEF StepFails
  <2>5. call.name = "restore" => saved.covers \subseteq Ids
    BY <2>1 DEF CallTypes, Checkpoint
  <2>6. index' # index /\ Undo(Next1) # <<>> => call.id \in Ids
    BY <2>1 DEF CallTypes, Undo
  <2>7. faults' \in 0 .. MaxFaults
    BY <1>9, FaultAssumption DEF StepFails, Fault
  <2>8. marred' \subseteq Ids
    BY <1>9, <2>5, <2>6 DEF StepFails
  <2> QED BY <1>9, <2>2, <2>4, <2>7, <2>8 DEF StepFails
<1>10. CASE UndoOK
  <2>1. Next1 \in Writes /\ Rest \in Seq(Writes) /\ call # Idle /\ call \in Call
    BY <1>10, Taken DEF UndoOK, CallTypes
  <2>2. docs' \in [Ids -> Doc]
    BY <1>10, <2>1, WrittenTypes DEF UndoOK
  <2>3. CallTypes'
    BY <1>10, <2>1, GoingTypes DEF UndoOK, Call
  <2> QED BY <1>10, <2>2, <2>3 DEF UndoOK
<1>11. CASE UndoFails
  <2>1. Next1 \in Writes /\ Rest \in Seq(Writes) /\ call # Idle
    BY <1>11, Taken DEF UndoFails
  <2>2. docs' \in [Ids -> Doc] /\ index' \in Index
    BY <1>11, <2>1, WrittenTypes DEF UndoFails, Failed
  <2>3. CallTypes'
    BY <1>11, <2>1, GoingTypes DEF UndoFails
  <2>4. faults' \in 0 .. MaxFaults
    BY <1>11, FaultAssumption DEF UndoFails, Fault
  <2> QED BY <1>11, <2>2, <2>3, <2>4 DEF UndoFails
<1>12. CASE Kill
  <2>1. call # Idle /\ call.name = "restore" => saved.covers \subseteq Ids
    BY DEF CallTypes, Checkpoint
  <2>2. marred' \subseteq Ids
    BY <1>12, <2>1 DEF Kill
  <2>3. faults' \in 0 .. MaxFaults
    BY <1>12, FaultAssumption DEF Kill, Fault
  <2> QED BY <1>12, <2>2, <2>3 DEF Kill, CallTypes
<1>13. CASE DropCheckpoint
  BY <1>13 DEF DropCheckpoint, CallTypes
<1>14. ASSUME NEW id \in Ids, Publish(id) PROVE Types'
  <2>1. upstream' \in [Ids -> 1 .. MaxVersion]
    BY <1>14, BoundAssumption DEF Publish
  <2> QED BY <1>14, <2>1 DEF Publish, CallTypes
<1>15. ASSUME NEW id \in Ids, NEW c \in Clients, ReadBaseline(c, id) PROVE Types'
  <2> DEFINE r == [id |-> id, entry |-> index.entry[id], doc |-> docs[id],
                   got |-> Pending, at |-> 0]
  <2>1. r \in Job /\ r.entry.updated < MaxRev
    BY <1>0, <1>15, BoundAssumption DEF ReadBaseline, Job, Index
  <2> HIDE DEF r
  <2>2. job' = [job EXCEPT ![c] = r]
    BY <1>15 DEF ReadBaseline, r
  <2> QED BY <1>15, <2>1, <2>2 DEF ReadBaseline, CallTypes
<1>16. ASSUME NEW c \in Clients, Download(c) PROVE Types'
  <2> DEFINE id == job[c].id
             known == id \in Remote /\ job[c].entry.etag = upstream[id]
             got == IF known THEN NotModified ELSE upstream[id]
             at == job[c].entry.updated + 1
  <2>1. job[c] \in Job /\ job[c].entry.updated < MaxRev
    BY <1>16 DEF Download
  <2>2. got \in Versions \cup {Pending, NotModified} /\ at \in 0 .. MaxRev
    BY <2>1, BoundAssumption DEF Job, Entry, Versions
  <2> HIDE DEF got, at
  <2>3. job' = [job EXCEPT ![c] = [job[c] EXCEPT !.got = got, !.at = at]]
    BY <1>16 DEF Download, got, at
  <2>4. [job[c] EXCEPT !.got = got, !.at = at] \in Job
    BY <2>1, <2>2 DEF Job
  <2>5. [job[c] EXCEPT !.got = got, !.at = at].entry = job[c].entry
    BY <2>1 DEF Job
  <2> DEFINE new == [job[c] EXCEPT !.got = got, !.at = at]
  <2>6. new \in Job /\ new.entry.updated < MaxRev /\ job' = [job EXCEPT ![c] = new]
    BY <2>1, <2>3, <2>4, <2>5
  <2> HIDE DEF new
  <2>7. /\ job' \in [Clients -> Job \cup {NoJob}]
        /\ \A x \in Clients : job'[x] # NoJob => job'[x].entry.updated < MaxRev
    BY <2>6
  <2>8. UNCHANGED <<docs, index, upstream, born, call, saved, marred, faults>>
    BY <1>16 DEF Download
  <2> QED BY <2>7, <2>8 DEF CallTypes
<1>17. ASSUME NEW c \in Clients, Abandon(c) \/ RefuseStale(c) PROVE Types'
  BY <1>17 DEF Abandon, RefuseStale, CallTypes
<1>18. CASE UNCHANGED vars
  BY <1>18 DEF vars, CallTypes
<1> QED BY <1>1, <1>2, <1>3, <1>4, <1>5, <1>6, <1>7, <1>8, <1>9, <1>10, <1>11, <1>12,
           <1>13, <1>14, <1>15, <1>16, <1>17, <1>18 DEF Next

-----------------------------------------------------------------------------
(* What holds of one profile between all writes.                           *)

Restores == call # Idle /\ call.name = "restore"

(* Its documents and its ETag are no newer than what was published; if the *)
(* index names it, it has its documents; an ETag that the server would     *)
(* confirm is the ETag of what is installed.                               *)
Fit(i) ==
  /\ docs[i].config <= upstream[i] /\ index.entry[i].etag <= upstream[i]
  /\ i \in index.named => Whole(docs[i]) \/ i \in marred
  /\ \/ ~(i \in index.named \cap Remote) \/ i \in marred
     \/ Restores /\ i \in saved.covers
     \/ index.entry[i].etag = upstream[i] => docs[i] = Of(upstream[i])
  /\ born[i] = 0 => docs[i] = Gone /\ i \notin index.named
  /\ saved # NoCheckpoint /\ i \notin saved.covers =>
       /\ saved.docs[i] # Gone => docs[i] = saved.docs[i]
       /\ i \in saved.marred => i \in marred

(* The same of the checkpoint.                                             *)
SavedFit(i) ==
  saved # NoCheckpoint =>
    /\ saved.docs[i].config <= upstream[i] /\ saved.index.entry[i].etag <= upstream[i]
    /\ i \in saved.covers => i \in saved.index.named /\ Whole(saved.docs[i])
    /\ i \in saved.index.named =>
         saved.docs[i] # Gone /\ (Whole(saved.docs[i]) \/ i \in saved.marred)
    /\ i \in (saved.index.named \cap Remote) \ saved.marred =>
         (saved.index.entry[i].etag = upstream[i] => saved.docs[i] = Of(upstream[i]))
    /\ born[i] = 0 => saved.docs[i] = Gone /\ i \notin saved.index.named

(* A prepared update was newer than its baseline.                          *)
JobFit(c) ==
  job[c] # NoJob =>
    LET j == job[c] IN
      /\ Whole(j.doc) /\ j.doc.config <= upstream[j.id] /\ j.entry.etag <= upstream[j.id]
      /\ j.got \in Versions =>
           /\ j.got \in 1 .. upstream[j.id] /\ j.doc.config <= j.got
           /\ j.id \in Remote => j.entry.etag < j.got

(* A call other than a restore changes one profile and its entry.          *)
Alone ==
  LET id == call.id IN
    /\ \A i \in Ids \ {id} : docs[i] = call.before.docs[i]
    /\ \A i \in Ids : call.before.docs[i].config <= upstream[i]
    /\ call.phase = "doing" =>
         \A i \in Ids \ {id} : /\ i \in call.index.named <=> i \in index.named
                               /\ call.index.entry[i].etag = index.entry[i].etag

(* Both documents, then the index.                                         *)
Installing(v) ==
  LET id == call.id IN
    \/ /\ call.todo = <<Src(id, v), Cfg(id, v), Idx>>
       /\ docs[id] = call.before.docs[id]
    \/ /\ call.todo = <<Cfg(id, v), Idx>>
       /\ docs[id] = [source |-> v, config |-> call.before.docs[id].config]
    \/ /\ call.todo = <<Idx>>
       /\ docs[id] = Of(v)

AddForm ==
  LET id == call.id IN
    /\ born[id] # 0 /\ call.before.docs[id] = Gone
    /\ saved # NoCheckpoint => id \notin saved.covers /\ saved.docs[id] = Gone
    /\ call.phase = "doing" =>
         /\ id \notin index.named
         /\ \E v \in 1 .. upstream[id] :
              /\ call.index.entry[id].etag = IF id \in Remote THEN v ELSE 0
              /\ Installing(v)
    /\ call.phase # "doing" =>
         /\ call.todo = <<Dir(id)>>
         /\ id \notin index.named \/ id \in marred

KeepForm ==
  LET id == call.id IN
    /\ call.phase = "doing" /\ call.todo = <<Idx>>
    /\ id \in call.index.named /\ id \in index.named
    /\ call.index.entry[id].etag = index.entry[id].etag

RemoveForm ==
  LET id == call.id IN
    /\ call.phase = "doing" /\ born[id] # 0
    /\ saved # NoCheckpoint => id \in saved.covers
    /\ id \notin call.index.named /\ call.index.entry[id].etag = 0
    /\ \/ call.todo = <<Idx, Dir(id)>>
       \/ call.todo = <<Dir(id)>> /\ id \notin index.named

RefreshForm ==
  LET id  == call.id
      old == call.before.docs[id]
  IN  /\ id \in index.named /\ Whole(old)
      /\ saved # NoCheckpoint => id \in saved.covers
      /\ call.phase = "doing" =>
           /\ id \in call.index.named /\ index = call.before.index
           /\ \E v \in 1 .. upstream[id] :
                /\ old.config <= v /\ call.index.entry[id].etag <= upstream[id]
                /\ id \in Remote => /\ call.index.entry[id].etag = v
                                    /\ index.entry[id].etag < v
                /\ Installing(v)
      /\ call.phase # "doing" =>
           /\ Whole(docs[id])
           /\ id \in marred \/ (id \in Remote => index.entry[id].etag < upstream[id])
           /\ call.todo \in {<<Src(id, old.source), Cfg(id, old.config)>>,
                             <<Src(id, old.source)>>, <<Cfg(id, old.config)>>}
           /\ "late" \notin Faults /\ call.phase = "undoing" =>
                /\ index = call.before.index
                /\ call.todo = <<Src(id, old.source)>> => docs[id].config = old.config
                /\ call.todo = <<Cfg(id, old.config)>> => docs[id].source = old.source

Left == {call.todo[k] : k \in 1 .. Len(call.todo)}

RestoreForm ==
  /\ saved # NoCheckpoint /\ call.phase = "doing" /\ call.index = saved.index
  /\ \A i \in saved.covers :
       /\ docs[i].source = saved.docs[i].source \/ Src(i, saved.docs[i].source) \in Left
       /\ docs[i].config = saved.docs[i].config \/ Cfg(i, saved.docs[i].config) \in Left
  /\ index = saved.index \/ Idx \in Left
  /\ \A i \in Ids \ saved.covers :
       docs[i] = saved.docs[i] \/ (saved.docs[i] = Gone /\ Dir(i) \in Left)
  /\ \A w \in Left :
       \/ w = Idx
       \/ \E i \in saved.covers : w \in {Src(i, saved.docs[i].source), Cfg(i, saved.docs[i].config)}
       \/ \E i \in Ids \ saved.covers : saved.docs[i] = Gone /\ w = Dir(i)
  /\ \A k, l \in 1 .. Len(call.todo) :
       k < l /\ call.todo[k].file \in {"index", "directory"} => call.todo[l].file = "directory"

Form ==
  call # Idle =>
    /\ call.name # "restore" => Alone
    /\ call.name = "add" => AddForm
    /\ call.name \in {"use", "choose", "touch"} => KeepForm
    /\ call.name = "remove" => RemoveForm
    /\ call.name = "refresh" => RefreshForm
    /\ call.name = "restore" => RestoreForm

AllFit == /\ \A i \in Ids : Fit(i) /\ SavedFit(i)
          /\ \A c \in Clients : JobFit(c)

StoreInv == Types /\ AllFit /\ Form

-----------------------------------------------------------------------------
(* What each kind of write does.                                           *)

LEMMA SrcDoes ==
  ASSUME Types, NEW id \in Ids, NEW v
  PROVE  /\ Written(Src(id, v)) = [docs EXCEPT ![id] = [source |-> v, config |-> docs[id].config]]
         /\ Indexed(Src(id, v)) = index /\ Leftovers(Src(id, v)) = {docs}
<1>1. Written(Src(id, v)) = [docs EXCEPT ![id].source = v]
  BY DEF Written, Src
<1>2. Indexed(Src(id, v)) = index /\ Leftovers(Src(id, v)) = {docs}
  BY DEF Src, Indexed, Leftovers
<1>3. [docs EXCEPT ![id].source = v] = [docs EXCEPT ![id] = [docs[id] EXCEPT !.source = v]]
  OBVIOUS
<1> DEFINE d == docs[id]
<1>4. d \in Doc
  BY DEF Types
<1>5. [d EXCEPT !.source = v] = [source |-> v, config |-> d.config]
  BY <1>4 DEF Doc
<1> QED BY <1>1, <1>2, <1>3, <1>5

LEMMA CfgDoes ==
  ASSUME Types, NEW id \in Ids, NEW v
  PROVE  /\ Written(Cfg(id, v)) = [docs EXCEPT ![id] = [source |-> docs[id].source, config |-> v]]
         /\ Indexed(Cfg(id, v)) = index /\ Leftovers(Cfg(id, v)) = {docs}
<1>1. Written(Cfg(id, v)) = [docs EXCEPT ![id].config = v]
  BY DEF Written, Cfg
<1>2. Indexed(Cfg(id, v)) = index /\ Leftovers(Cfg(id, v)) = {docs}
  BY DEF Cfg, Indexed, Leftovers
<1>3. [docs EXCEPT ![id].config = v] = [docs EXCEPT ![id] = [docs[id] EXCEPT !.config = v]]
  OBVIOUS
<1> DEFINE d == docs[id]
<1>4. d \in Doc
  BY DEF Types
<1>5. [d EXCEPT !.config = v] = [source |-> d.source, config |-> v]
  BY <1>4 DEF Doc
<1> QED BY <1>1, <1>2, <1>3, <1>5

LEMMA IdxDoes ==
  Written(Idx) = docs /\ Indexed(Idx) = call.index /\ Leftovers(Idx) = {docs}
BY DEF Written, Idx, Indexed, Leftovers

LEMMA DirDoes ==
  ASSUME Types, NEW id \in Ids
  PROVE  /\ Written(Dir(id)) = [docs EXCEPT ![id] = Gone]
         /\ Indexed(Dir(id)) = index
         /\ \A x \in Leftovers(Dir(id)) :
              \E s \in {0, docs[id].source}, f \in {0, docs[id].config} :
                x = [docs EXCEPT ![id] = [source |-> s, config |-> f]]
BY DEF Written, Dir, Indexed, Leftovers

(* A write of call's profile leaves the other profiles' files.             *)
LEMMA StaysHome ==
  ASSUME Types, NEW id \in Ids, NEW d, docs' = [docs EXCEPT ![id] = d]
  PROVE  docs'[id] = d /\ \A i \in Ids \ {id} : docs'[i] = docs[i]
BY DEF Types

LEMMA GoesOn ==
  ASSUME Types, call # Idle, NEW todo \in Seq(Writes),
         NEW phase \in {"doing", "undoing", "dirty"}, Going(todo, phase)
  PROVE  \/ todo = <<>> /\ call' = Idle
         \/ /\ todo # <<>> /\ call' # Idle
            /\ call'.name = call.name /\ call'.id = call.id /\ call'.index = call.index
            /\ call'.before = call.before /\ call'.todo = todo /\ call'.phase = phase
<1>1. CASE todo = <<>>
  BY <1>1 DEF Going
<1>2. CASE todo # <<>>
  <2>1. call' = [call EXCEPT !.todo = todo, !.phase = phase]
    BY <1>2 DEF Going
  <2>2. call \in Call /\ todo \in Seq(Write)
    BY SeqMonotonic DEF Types, CallTypes, Writes
  <2>3. call' \in Call
    BY <2>1, <2>2 DEF Call
  <2>4. call = [name |-> call.name, id |-> call.id, todo |-> call.todo, index |-> call.index,
                before |-> call.before, phase |-> call.phase]
    BY <2>2 DEF Call
  <2>5. call' = [name |-> call.name, id |-> call.id, todo |-> todo, index |-> call.index,
                 before |-> call.before, phase |-> phase]
    BY <2>1, <2>4
  <2> QED BY <1>2, <2>3, <2>5, IdleAssumption
<1> QED BY <1>1, <1>2

-----------------------------------------------------------------------------
(* A profile stays fit as long as its own files and entry stay.            *)

LEMMA FitKept ==
  ASSUME NEW i \in Ids, Fit(i), upstream'[i] = upstream[i], docs'[i] = docs[i],
         index'.entry[i].etag = index.entry[i].etag,
         i \in index'.named <=> i \in index.named,
         i \in marred => i \in marred',
         born'[i] = 0 => born[i] = 0,
         saved' \in {saved, NoCheckpoint},
         Restores /\ i \in saved.covers => i \in marred' \/ (Restores' /\ saved' = saved)
  PROVE  Fit(i)'
BY DEF Fit

LEMMA SavedKept ==
  ASSUME NEW i \in Ids, SavedFit(i), upstream'[i] = upstream[i],
         born'[i] = 0 => born[i] = 0, saved' \in {saved, NoCheckpoint}
  PROVE  SavedFit(i)'
BY DEF SavedFit

(* A step of a call on one profile.                                        *)
LEMMA OthersFit ==
  ASSUME Types, AllFit, call # Idle, call.name # "restore",
         NEW id \in Ids,
         UNCHANGED <<upstream, born, job, saved>>,
         \A i \in Ids \ {id} : /\ docs'[i] = docs[i]
                               /\ index'.entry[i].etag = index.entry[i].etag
                               /\ i \in index'.named <=> i \in index.named
                               /\ i \in marred => i \in marred',
         Fit(id)'
  PROVE  AllFit'
<1>1. \A i \in Ids : SavedFit(i)'
  BY SavedKept DEF AllFit
<1>2. ~Restores
  BY DEF Restores
<1>3. ASSUME NEW i \in Ids \ {id} PROVE Fit(i)'
  BY <1>2, <1>3, FitKept DEF AllFit
<1>4. \A c \in Clients : JobFit(c)'
  BY DEF AllFit, JobFit
<1> QED BY <1>1, <1>3, <1>4 DEF AllFit

(* The writes by which Add and CommitUpdate install both documents.        *)
LEMMA InstallGoes ==
  ASSUME Types, call # Idle, NEW id \in Ids, call.id = id, NEW v, Installing(v),
         call.name # "restore", StepOK
  PROVE  /\ saved' = saved
         /\ \/ /\ \A i \in Ids \ {id} : docs'[i] = docs[i]
               /\ docs'[id] = [source |-> v, config |-> call.before.docs[id].config]
               /\ docs[id] = call.before.docs[id]
               /\ index' = index /\ marred' = marred /\ Installing(v)'
               /\ call' # Idle
               /\ call'.name = call.name /\ call'.id = id /\ call'.index = call.index
               /\ call'.before = call.before /\ call'.phase = "doing"
            \/ /\ \A i \in Ids \ {id} : docs'[i] = docs[i]
               /\ docs'[id] = Of(v)
               /\ docs[id] = [source |-> v, config |-> call.before.docs[id].config]
               /\ index' = index /\ marred' = marred /\ Installing(v)'
               /\ call' # Idle
               /\ call'.name = call.name /\ call'.id = id /\ call'.index = call.index
               /\ call'.before = call.before /\ call'.phase = "doing"
            \/ /\ docs' = docs /\ docs[id] = Of(v) /\ index' = call.index /\ call' = Idle
               /\ marred' = IF call.name = "refresh" THEN marred \ {id} ELSE marred
<1>0. ~Finishes("restore") /\ saved' = saved
  BY DEF Finishes, StepOK
<1>1. CASE call.todo = <<Src(id, v), Cfg(id, v), Idx>> /\ docs[id] = call.before.docs[id]
  <2>1. Next1 = Src(id, v) /\ Rest = <<Cfg(id, v), Idx>> /\ Rest # <<>>
    BY <1>1, Heads DEF Next1, Rest
  <2>2. docs' = [docs EXCEPT ![id] = [source |-> v, config |-> docs[id].config]]
        /\ index' = index
    BY <2>1, SrcDoes DEF StepOK
  <2>3. Rest \in Seq(Writes) /\ Going(Rest, "doing")
    BY Taken DEF StepOK
  <2>4. /\ call' # Idle /\ call'.name = call.name /\ call'.id = id /\ call'.index = call.index
        /\ call'.before = call.before /\ call'.phase = "doing" /\ call'.todo = Rest
    BY <2>1, <2>3, GoesOn
  <2>5. marred' = marred
    BY <1>0, <2>1 DEF StepOK, Finishes
  <2>6. docs'[id] = [source |-> v, config |-> docs[id].config]
        /\ \A i \in Ids \ {id} : docs'[i] = docs[i]
    BY <2>2, StaysHome
  <2>7. Installing(v)'
    BY <1>1, <2>1, <2>4, <2>6 DEF Installing
  <2> QED BY <1>0, <1>1, <2>2, <2>4, <2>5, <2>6, <2>7
<1>2. CASE /\ call.todo = <<Cfg(id, v), Idx>>
           /\ docs[id] = [source |-> v, config |-> call.before.docs[id].config]
  <2>1. Next1 = Cfg(id, v) /\ Rest = <<Idx>> /\ Rest # <<>>
    BY <1>2, Heads DEF Next1, Rest
  <2>2. docs' = [docs EXCEPT ![id] = [source |-> docs[id].source, config |-> v]]
        /\ index' = index
    BY <2>1, CfgDoes DEF StepOK
  <2>3. docs'[id] = Of(v) /\ \A i \in Ids \ {id} : docs'[i] = docs[i]
    <3>1. docs[id].source = v
      BY <1>2
    <3>2. docs' = [docs EXCEPT ![id] = Of(v)]
      BY <2>2, <3>1 DEF Of
    <3> DEFINE d == Of(v)
    <3>3. docs' = [docs EXCEPT ![id] = d]
      BY <3>2
    <3> HIDE DEF d
    <3>4. docs'[id] = d /\ \A i \in Ids \ {id} : docs'[i] = docs[i]
      BY ZenonT(40), <3>3, StaysHome
    <3> QED BY <3>4 DEF d
  <2>4. Rest \in Seq(Writes) /\ Going(Rest, "doing")
    BY Taken DEF StepOK
  <2>5. /\ call' # Idle /\ call'.name = call.name /\ call'.id = id /\ call'.index = call.index
        /\ call'.before = call.before /\ call'.phase = "doing" /\ call'.todo = Rest
    BY <2>1, <2>4, GoesOn
  <2>6. marred' = marred
    BY <1>0, <2>1 DEF StepOK, Finishes
  <2>7. Installing(v)'
    BY <2>1, <2>3, <2>5 DEF Installing, Of
  <2> QED BY <1>0, <1>2, <2>2, <2>3, <2>5, <2>6, <2>7
<1>3. CASE call.todo = <<Idx>> /\ docs[id] = Of(v)
  <2>1. Next1 = Idx /\ Rest = <<>>
    BY <1>3, Heads DEF Next1, Rest
  <2>2. docs' = docs /\ index' = call.index
    BY <2>1, IdxDoes DEF StepOK
  <2>3. call' = Idle
    BY <2>1 DEF StepOK, Going
  <2>4. marred' = IF call.name = "refresh" THEN marred \ {id} ELSE marred
    BY <1>0, <2>1 DEF StepOK, Finishes
  <2> QED BY <1>0, <1>3, <2>2, <2>3, <2>4
<1> QED BY <1>1, <1>2, <1>3 DEF Installing

LEMMA InstallFails ==
  ASSUME Types, call # Idle, NEW id \in Ids, call.id = id, NEW v, Installing(v), StepFails
  PROVE  /\ \A i \in Ids \ {id} : docs'[i] = docs[i]
         /\ "late" \notin Faults => docs' = docs /\ index' = index
         /\ \/ /\ Next1 = Src(id, v) /\ docs[id] = call.before.docs[id]
               /\ docs'[id] \in {docs[id], [source |-> v, config |-> docs[id].config]}
               /\ index' = index
            \/ /\ Next1 = Cfg(id, v)
               /\ docs[id] = [source |-> v, config |-> call.before.docs[id].config]
               /\ docs'[id] \in {docs[id], Of(v)}
               /\ index' = index
            \/ /\ Next1 = Idx /\ docs' = docs /\ docs[id] = Of(v)
               /\ index' \in {index, call.index}
<1>0. Failed(Next1)
  BY DEF StepFails
<1>1. CASE call.todo = <<Src(id, v), Cfg(id, v), Idx>> /\ docs[id] = call.before.docs[id]
  <2>1. Next1 = Src(id, v)
    BY <1>1, Heads DEF Next1
  <2> DEFINE d == [source |-> v, config |-> docs[id].config]
  <2>2. /\ index' = index /\ docs' \in {docs, [docs EXCEPT ![id] = d]}
        /\ "late" \notin Faults => docs' = docs
    BY <1>0, <2>1, SrcDoes DEF Failed
  <2> HIDE DEF d
  <2>3. docs'[id] \in {docs[id], d} /\ \A i \in Ids \ {id} : docs'[i] = docs[i]
    BY <2>2, StaysHome
  <2> QED BY <1>1, <2>1, <2>2, <2>3 DEF d
<1>2. CASE /\ call.todo = <<Cfg(id, v), Idx>>
           /\ docs[id] = [source |-> v, config |-> call.before.docs[id].config]
  <2>1. Next1 = Cfg(id, v)
    BY <1>2, Heads DEF Next1
  <2>2. docs[id].source = v
    BY <1>2
  <2> DEFINE d == [source |-> docs[id].source, config |-> v]
  <2>3. /\ index' = index /\ docs' \in {docs, [docs EXCEPT ![id] = d]}
        /\ "late" \notin Faults => docs' = docs
    BY <1>0, <2>1, CfgDoes DEF Failed
  <2>4. d = Of(v)
    BY <2>2 DEF Of
  <2> HIDE DEF d
  <2>5. docs'[id] \in {docs[id], d} /\ \A i \in Ids \ {id} : docs'[i] = docs[i]
    BY <2>3, StaysHome
  <2> QED BY <1>2, <2>1, <2>3, <2>4, <2>5
<1>3. CASE call.todo = <<Idx>> /\ docs[id] = Of(v)
  <2>1. Next1 = Idx
    BY <1>3, Heads DEF Next1
  <2>2. /\ docs' = docs /\ index' \in {index, call.index}
        /\ "late" \notin Faults => index' = index
    BY <1>0, <2>1, IdxDoes DEF Failed
  <2> QED BY <1>3, <2>1, <2>2
<1> QED BY <1>1, <1>2, <1>3 DEF Installing

-----------------------------------------------------------------------------
(* The steps of Add.                                                       *)

LEMMA Shaped ==
  ASSUME Types, NEW i \in Ids
  PROVE  /\ docs[i] \in Doc /\ upstream[i] \in 1 .. MaxVersion
         /\ index.entry[i].etag \in Versions
         /\ call # Idle => /\ call.before.docs[i] \in Doc
                           /\ call.index.entry[i].etag \in Versions
         /\ saved # NoCheckpoint => /\ saved.docs[i] \in Doc
                                    /\ saved.index.entry[i].etag \in Versions
BY DEF Types, CallTypes, Call, Index, Entry, Checkpoint

LEMMA AddGoes ==
  ASSUME StoreInv, call # Idle, call.name = "add", StepOK
  PROVE  AllFit' /\ Form'
<1> DEFINE id == call.id
<1>1. Types /\ AllFit /\ Alone /\ AddForm /\ id \in Ids /\ call.phase = "doing"
  BY DEF StoreInv, Form, StepOK, Types, CallTypes
<1>2. PICK v \in 1 .. upstream[id] :
        /\ call.index.entry[id].etag = IF id \in Remote THEN v ELSE 0
        /\ Installing(v)
  BY <1>1 DEF AddForm
<1>3. PICK k \in Ids : k = id
  BY <1>1
<1> HIDE DEF id
<1>4. call.id = k
  BY <1>3 DEF id
<1>5. Fit(k) /\ SavedFit(k)
  BY <1>1 DEF AllFit
<1>6. /\ docs[k] \in Doc /\ upstream[k] \in 1 .. MaxVersion
      /\ v \in 1 .. upstream[k] /\ v \in Nat
  BY <1>1, <1>2, <1>3, Shaped, BoundAssumption
<1>7. /\ born[k] # 0 /\ call.before.docs[k] = Gone /\ k \notin index.named
      /\ saved # NoCheckpoint => k \notin saved.covers /\ saved.docs[k] = Gone
  BY <1>1, <1>4 DEF AddForm
<1>8. UNCHANGED <<upstream, born, job, faults>>
  BY DEF StepOK
<1>9. ~Restores
  BY DEF Restores
<1>10. CASE /\ \A i \in Ids \ {k} : docs'[i] = docs[i]
            /\ docs'[k] \in {[source |-> v, config |-> 0], Of(v)}
            /\ index' = index /\ marred' = marred /\ Installing(v)' /\ call' # Idle
            /\ call'.name = call.name /\ call'.id = k /\ call'.index = call.index
            /\ call'.before = call.before /\ call'.phase = "doing" /\ saved' = saved
  <2>1. Fit(k)'
    BY <1>5, <1>6, <1>7, <1>8, <1>10 DEF Fit, Of
  <2>2. AllFit'
    BY <1>1, <1>4, <1>8, <1>10, <2>1, OthersFit
  <2>3. Alone'
    BY <1>1, <1>4, <1>8, <1>10 DEF Alone
  <2>4. AddForm'
    BY <1>2, <1>3, <1>6, <1>7, <1>8, <1>10 DEF AddForm, id
  <2> QED BY <1>10, <2>2, <2>3, <2>4 DEF Form
<1>11. CASE /\ docs' = docs /\ docs[k] = Of(v) /\ index' = call.index /\ call' = Idle
            /\ marred' = marred /\ saved' = saved
  <2>1. call.index.entry[k].etag <= v /\ k \in Remote => call.index.entry[k].etag = v
    BY <1>2, <1>3, <1>6
  <2>2. Fit(k)'
    BY <1>2, <1>3, <1>5, <1>6, <1>7, <1>8, <1>11 DEF Fit, Of, Whole, Gone, id
  <2>3. \A i \in Ids \ {k} : /\ docs'[i] = docs[i]
                             /\ index'.entry[i].etag = index.entry[i].etag
                             /\ i \in index'.named <=> i \in index.named
                             /\ i \in marred => i \in marred'
    BY <1>1, <1>4, <1>11 DEF Alone
  <2>4. AllFit'
    BY <1>1, <1>4, <1>8, <1>11, <2>2, <2>3, OthersFit
  <2> QED BY <1>11, <2>4 DEF Form
<1>12. call.before.docs[k].config = 0
  BY <1>7 DEF Gone
<1>13. Installing(v) /\ call.name # "refresh" /\ call.name # "restore"
  BY <1>2
<1> QED BY ZenonT(40), <1>1, <1>4, <1>10, <1>11, <1>12, <1>13, InstallGoes

LEMMA AddFails ==
  ASSUME StoreInv, call # Idle, call.name = "add", StepFails
  PROVE  AllFit' /\ Form'
<1> DEFINE id == call.id
<1>1. Types /\ AllFit /\ Alone /\ AddForm /\ id \in Ids /\ call.phase = "doing"
  BY DEF StoreInv, Form, StepFails, Types, CallTypes
<1>2. PICK v \in 1 .. upstream[id] :
        /\ call.index.entry[id].etag = IF id \in Remote THEN v ELSE 0
        /\ Installing(v)
  BY <1>1 DEF AddForm
<1>3. PICK k \in Ids : k = id
  BY <1>1
<1> HIDE DEF id
<1>4. call.id = k
  BY <1>3 DEF id
<1>5. Fit(k) /\ SavedFit(k)
  BY <1>1 DEF AllFit
<1>6. /\ docs[k] \in Doc /\ upstream[k] \in 1 .. MaxVersion
      /\ v \in 1 .. upstream[k] /\ v \in Nat
  BY <1>1, <1>2, <1>3, Shaped, BoundAssumption
<1>7. /\ born[k] # 0 /\ call.before.docs[k] = Gone /\ k \notin index.named
      /\ saved # NoCheckpoint => k \notin saved.covers /\ saved.docs[k] = Gone
  BY <1>1, <1>4 DEF AddForm
<1>8. UNCHANGED <<upstream, born, job, saved>>
  BY DEF StepFails
<1>9. ~Restores
  BY DEF Restores
<1>10. /\ \A i \in Ids \ {k} : docs'[i] = docs[i]
       /\ docs'[k].config \in {docs[k].config, 0, v}
       /\ index' \in {index, call.index}
  <2>1. Installing(v)
    BY <1>2
  <2> DEFINE half == [source |-> v, config |-> docs[k].config]
             whole == Of(v)
  <2>2. whole.config = v /\ half.config = docs[k].config
    BY DEF Of
  <2>3. /\ \A i \in Ids \ {k} : docs'[i] = docs[i]
        /\ docs'[k] \in {docs[k], half, whole} /\ index' \in {index, call.index}
    BY <1>1, <1>4, <2>1, InstallFails
  <2> HIDE DEF half, whole
  <2> QED BY <2>2, <2>3
<1>11. Undo(Next1) = <<Dir(k)>> /\ Undo(Next1) # <<>>
  BY <1>4, Heads DEF Undo, Drop, Dir
<1>12. /\ call' # Idle /\ call'.name = "add" /\ call'.id = k /\ call'.before = call.before
       /\ call'.todo = <<Dir(k)>> /\ call'.phase = "undoing"
  <2>1. Undo(Next1) \in Seq(Writes)
    BY <1>1, UndoTypes
  <2> QED BY <1>1, <1>4, <1>11, <2>1, GoesOn DEF StepFails
<1>13. /\ index' # index => marred' = marred \cup {k}
       /\ index' = index => marred' = marred
  BY <1>4, <1>11 DEF StepFails
<1>14. Fit(k)'
  <2>1. docs'[k].config <= upstream[k]
    BY <1>5, <1>6, <1>10 DEF Fit, Doc, Versions
  <2>2. index'.entry[k].etag <= upstream[k]
    <3>1. call.index.entry[k].etag <= upstream[k]
      BY <1>2, <1>3, <1>6
    <3> QED BY <1>5, <1>10, <3>1 DEF Fit
  <2>3. k \in index'.named => k \in marred'
    BY <1>7, <1>10, <1>13
  <2>4. k \in marred => k \in marred'
    BY <1>13
  <2> QED BY <1>5, <1>7, <1>8, <2>1, <2>2, <2>3, <2>4 DEF Fit
<1>15. \A i \in Ids \ {k} : /\ docs'[i] = docs[i]
                            /\ index'.entry[i].etag = index.entry[i].etag
                            /\ i \in index'.named <=> i \in index.named
                            /\ i \in marred => i \in marred'
  BY <1>1, <1>4, <1>10, <1>13 DEF Alone
<1>16. AllFit'
  BY <1>1, <1>4, <1>8, <1>14, <1>15, OthersFit
<1>17. Alone'
  BY <1>1, <1>4, <1>8, <1>10, <1>12 DEF Alone
<1>18. AddForm'
  <2>1. k \notin index'.named \/ k \in marred'
    BY <1>7, <1>10, <1>13
  <2> QED BY <1>7, <1>8, <1>12, <2>1 DEF AddForm
<1> QED BY <1>12, <1>16, <1>17, <1>18 DEF Form

LEMMA AddUndone ==
  ASSUME StoreInv, call # Idle, call.name = "add", UndoOK \/ UndoFails
  PROVE  AllFit' /\ Form'
<1>1. Types /\ AllFit /\ Alone /\ AddForm /\ call.id \in Ids /\ call.phase # "doing"
  BY DEF StoreInv, Form, UndoOK, UndoFails, Types, CallTypes
<1>2. PICK k \in Ids : k = call.id
  BY <1>1
<1>3. Next1 = Dir(k) /\ Rest = <<>>
  BY <1>1, <1>2, Heads DEF AddForm, Next1, Rest
<1>4. UNCHANGED <<upstream, born, job, saved, marred>> /\ call' = Idle
  BY <1>3 DEF UndoOK, UndoFails, Going
<1>5. docs[k] \in Doc
  BY <1>1, Shaped
<1>6. PICK s \in {0, docs[k].source}, f \in {0, docs[k].config} :
        docs' = [docs EXCEPT ![k] = [source |-> s, config |-> f]]
  <2>1. CASE docs' = Written(Next1)
    <3>1. docs' = [docs EXCEPT ![k] = [source |-> 0, config |-> 0]]
      BY <1>1, <1>3, <2>1, DirDoes DEF Gone
    <3> QED BY <3>1
  <2>2. CASE docs' \in Leftovers(Next1)
    <3>1. Leftovers(Next1) = Leftovers(Dir(k))
      BY <1>3
    <3> QED BY <1>1, <2>2, <3>1, DirDoes
  <2> QED BY <2>1, <2>2 DEF UndoOK, UndoFails, Failed
<1> DEFINE d == [source |-> s, config |-> f]
<1>7. index' = index
  BY <1>1, <1>3, DirDoes DEF UndoOK, UndoFails, Failed
<1>8. docs'[k] = d /\ \A i \in Ids \ {k} : docs'[i] = docs[i]
  BY <1>1, <1>6, StaysHome
<1>9. d.config \in {0, docs[k].config} /\ (docs[k] = Gone => d = Gone)
  BY <1>5, <1>6 DEF Gone
<1> HIDE DEF d
<1>10. Fit(k) /\ SavedFit(k) /\ upstream[k] \in 1 .. MaxVersion
  BY <1>1, Shaped DEF AllFit
<1>11. /\ k \notin index.named \/ k \in marred
       /\ saved # NoCheckpoint => k \notin saved.covers /\ saved.docs[k] = Gone
  BY <1>1, <1>2 DEF AddForm
<1>12. Fit(k)'
  BY <1>4, <1>7, <1>8, <1>9, <1>10, <1>11, BoundAssumption DEF Fit
<1>13. AllFit'
  BY <1>1, <1>2, <1>4, <1>7, <1>8, <1>12, OthersFit
<1> QED BY <1>4, <1>13 DEF Form

-----------------------------------------------------------------------------
(* The steps of Use, SaveSelections, of a refresh that found nothing, and  *)
(* of Remove.                                                              *)

LEMMA KeepEnds ==
  ASSUME StoreInv, call # Idle, call.name \in {"use", "choose", "touch"}, StepOK \/ StepFails
  PROVE  AllFit' /\ Form'
<1>1. Types /\ AllFit /\ Alone /\ KeepForm /\ call.id \in Ids
  BY DEF StoreInv, Form, Types, CallTypes
<1>2. PICK k \in Ids : k = call.id
  BY <1>1
<1>3. Next1 = Idx /\ Rest = <<>>
  BY <1>1, Heads DEF KeepForm, Next1, Rest
<1>4. Undo(Next1) = <<>>
  BY DEF Undo
<1>5. UNCHANGED <<upstream, born, job, saved, marred>> /\ call' = Idle
  BY <1>3, <1>4 DEF StepOK, StepFails, Going, Finishes
<1>6. docs' = docs /\ index' \in {index, call.index}
  BY <1>3, IdxDoes DEF StepOK, StepFails, Failed
<1>7. \A i \in Ids : /\ index'.entry[i].etag = index.entry[i].etag
                     /\ i \in index'.named <=> i \in index.named
  <2>1. call.phase = "doing"
    BY <1>1 DEF KeepForm
  <2>2. \A i \in Ids : /\ call.index.entry[i].etag = index.entry[i].etag
                       /\ i \in call.index.named <=> i \in index.named
    BY <1>1, <2>1 DEF Alone, KeepForm
  <2> QED BY <1>6, <2>2
<1>8. Fit(k)'
  BY <1>1, <1>5, <1>6, <1>7, FitKept DEF AllFit, Restores
<1>9. AllFit'
  BY <1>1, <1>2, <1>5, <1>6, <1>7, <1>8, OthersFit
<1> QED BY <1>5, <1>9 DEF Form

(* A removal takes its profile out of the index, then its files away.      *)
LEMMA RemoveGoes ==
  ASSUME StoreInv, call # Idle, call.name = "remove", StepOK \/ StepFails
  PROVE  AllFit' /\ Form'
<1>1. Types /\ AllFit /\ Alone /\ RemoveForm /\ call.id \in Ids
  BY DEF StoreInv, Form, Types, CallTypes
<1>2. PICK k \in Ids : k = call.id
  BY <1>1
<1>3. /\ call.phase = "doing" /\ born[k] # 0 /\ k \notin call.index.named
      /\ call.index.entry[k].etag = 0
      /\ saved # NoCheckpoint => k \in saved.covers
  BY <1>1, <1>2 DEF RemoveForm
<1>4. UNCHANGED <<upstream, born, job, saved, marred>>
  BY DEF StepOK, StepFails, Finishes, Undo
<1>5. StepFails => call' = Idle
  BY DEF StepFails, Undo, Going
<1>6. Fit(k) /\ SavedFit(k) /\ upstream[k] \in 1 .. MaxVersion /\ docs[k] \in Doc
  BY <1>1, Shaped DEF AllFit
<1>7. CASE call.todo = <<Idx, Dir(k)>>
  <2>1. Next1 = Idx /\ Rest = <<Dir(k)>> /\ Rest # <<>>
    BY <1>7, Heads DEF Next1, Rest
  <2>2. docs' = docs /\ index' \in {index, call.index} /\ (StepOK => index' = call.index)
    BY <2>1, IdxDoes DEF StepOK, StepFails, Failed
  <2>3. Fit(k)'
    BY <1>3, <1>4, <1>6, <2>2, BoundAssumption DEF Fit, Restores
  <2>4. \A i \in Ids \ {k} : /\ docs'[i] = docs[i]
                             /\ index'.entry[i].etag = index.entry[i].etag
                             /\ i \in index'.named <=> i \in index.named
                             /\ i \in marred => i \in marred'
    BY <1>1, <1>2, <1>3, <1>4, <2>2 DEF Alone
  <2>5. AllFit'
    BY <1>1, <1>2, <1>4, <2>3, <2>4, OthersFit
  <2>6. CASE StepOK
    <3>1. Rest \in Seq(Writes)
      BY <1>1, Taken
    <3>2. /\ call'.name = call.name /\ call'.id = k /\ call'.index = call.index
          /\ call'.before = call.before /\ call'.phase = "doing" /\ call'.todo = <<Dir(k)>>
      BY <1>1, <1>2, <2>1, <2>6, <3>1, GoesOn DEF StepOK
    <3>3. index' = call.index
      BY <2>2, <2>6
    <3>4. Alone'
      BY <1>1, <1>2, <1>4, <2>2, <3>2, <3>3 DEF Alone
    <3>5. RemoveForm'
      BY <1>3, <1>4, <3>2, <3>3 DEF RemoveForm
    <3> QED BY <2>5, <3>2, <3>4, <3>5 DEF Form
  <2> QED BY <1>5, <2>5, <2>6 DEF Form
<1>8. CASE call.todo = <<Dir(k)>> /\ k \notin index.named
  <2>1. Next1 = Dir(k) /\ Rest = <<>>
    BY <1>8, Heads DEF Next1, Rest
  <2>2. call' = Idle
    BY <1>5, <2>1 DEF StepOK, Going
  <2>3. PICK s \in {0, docs[k].source}, f \in {0, docs[k].config} :
          docs' = [docs EXCEPT ![k] = [source |-> s, config |-> f]]
    <3>1. CASE docs' = Written(Next1)
      <4>1. docs' = [docs EXCEPT ![k] = [source |-> 0, config |-> 0]]
        BY <1>1, <2>1, <3>1, DirDoes DEF Gone
      <4> QED BY <4>1
    <3>2. CASE docs' \in Leftovers(Next1)
      <4>1. Leftovers(Next1) = Leftovers(Dir(k))
        BY <2>1
      <4> QED BY <1>1, <3>2, <4>1, DirDoes
    <3> QED BY <3>1, <3>2 DEF StepOK, StepFails, Failed
  <2> DEFINE d == [source |-> s, config |-> f]
  <2>4. docs'[k] = d /\ \A i \in Ids \ {k} : docs'[i] = docs[i]
    BY <1>1, <2>3, StaysHome
  <2>5. d.config \in {0, docs[k].config}
    OBVIOUS
  <2> HIDE DEF d
  <2>6. index' = index
    BY <1>1, <2>1, DirDoes DEF StepOK, StepFails, Failed
  <2>7. Fit(k)'
    BY <1>3, <1>4, <1>6, <1>8, <2>4, <2>5, <2>6, BoundAssumption DEF Fit
  <2>8. AllFit'
    BY <1>1, <1>2, <1>4, <2>4, <2>6, <2>7, OthersFit
  <2> QED BY <2>2, <2>8 DEF Form
<1> QED BY <1>1, <1>2, <1>7, <1>8 DEF RemoveForm

-----------------------------------------------------------------------------
(* The steps of a refresh.  Until its index is written the old ETag is     *)
(* older than what the server publishes.                                   *)

(* A profile in the middle of a refresh is fit, with either index.         *)
LEMMA RefreshFit ==
  ASSUME Types, NEW k \in Ids, Fit(k), k \in index.named, ~Restores,
         UNCHANGED <<upstream, born, saved>>,
         saved # NoCheckpoint => k \in saved.covers,
         k \in index'.named, index'.entry[k].etag <= upstream[k],
         Whole(docs'[k]), docs'[k].config <= upstream[k],
         \/ k \in marred'
         \/ k \in Remote => \/ index'.entry[k].etag < upstream[k]
                            \/ docs'[k] = Of(index'.entry[k].etag)
  PROVE  Fit(k)'
<1>1. upstream[k] \in Nat
  BY BoundAssumption DEF Types
<1>2. index'.entry[k].etag < upstream[k] => index'.entry[k].etag # upstream[k]
  BY <1>1
<1> QED BY <1>2 DEF Fit

LEMMA RefreshIs ==
  ASSUME StoreInv, call # Idle, call.name = "refresh", NEW k \in Ids, call.id = k
  PROVE  /\ Types /\ AllFit /\ Alone /\ RefreshForm /\ ~Restores
         /\ Fit(k) /\ k \in index.named /\ born[k] # 0
         /\ call.before.docs[k] \in Doc /\ Whole(call.before.docs[k])
         /\ call.before.docs[k].config <= upstream[k]
         /\ saved # NoCheckpoint => k \in saved.covers
         /\ docs[k] \in Doc /\ upstream[k] \in 1 .. MaxVersion
         /\ index.entry[k].etag \in Versions /\ call.index.entry[k].etag \in Versions
<1>1. Types /\ AllFit /\ Alone /\ RefreshForm
  BY DEF StoreInv, Form
<1>2. Fit(k) /\ k \in index.named /\ Whole(call.before.docs[k])
      /\ (saved # NoCheckpoint => k \in saved.covers)
  BY <1>1 DEF AllFit, RefreshForm
<1>3. born[k] # 0
  BY <1>2 DEF Fit
<1>4. call.before.docs[k].config <= upstream[k]
  BY <1>1 DEF Alone
<1> QED BY <1>1, <1>2, <1>3, <1>4, Shaped DEF Restores

LEMMA RefreshGoes ==
  ASSUME StoreInv, call # Idle, call.name = "refresh", StepOK
  PROVE  AllFit' /\ Form'
<1>0. call.id \in Ids /\ call.phase = "doing"
  BY DEF StoreInv, StepOK, Types, CallTypes
<1>1. PICK k \in Ids : call.id = k
  BY <1>0
<1>2. /\ Types /\ AllFit /\ Alone /\ RefreshForm /\ ~Restores
      /\ Fit(k) /\ k \in index.named /\ born[k] # 0
      /\ call.before.docs[k] \in Doc /\ Whole(call.before.docs[k])
      /\ call.before.docs[k].config <= upstream[k]
      /\ saved # NoCheckpoint => k \in saved.covers
      /\ docs[k] \in Doc /\ upstream[k] \in 1 .. MaxVersion
      /\ index.entry[k].etag \in Versions /\ call.index.entry[k].etag \in Versions
  BY <1>1, RefreshIs
<1>3. k \in call.index.named /\ index = call.before.index
  BY <1>0, <1>1, <1>2 DEF RefreshForm
<1>4. PICK v \in 1 .. upstream[k] :
        /\ call.before.docs[k].config <= v /\ call.index.entry[k].etag <= upstream[k]
        /\ k \in Remote => call.index.entry[k].etag = v /\ index.entry[k].etag < v
        /\ Installing(v)
  BY <1>0, <1>1, <1>2 DEF RefreshForm
<1>5. v \in Nat /\ v >= 1 /\ v <= upstream[k] /\ upstream[k] \in Nat
      /\ index.entry[k].etag \in Nat
  BY <1>2, <1>4, BoundAssumption DEF Versions
<1>6. UNCHANGED <<upstream, born, job>>
  BY DEF StepOK
<1> DEFINE half == [source |-> v, config |-> call.before.docs[k].config]
<1>7. Whole(half) /\ Whole(Of(v)) /\ half.config <= upstream[k] /\ Of(v).config <= upstream[k]
  BY <1>2, <1>5 DEF Whole, Of
<1> HIDE DEF half
<1>8. CASE /\ \A i \in Ids \ {k} : docs'[i] = docs[i]
           /\ docs'[k] \in {half, Of(v)}
           /\ index' = index /\ marred' = marred /\ Installing(v)' /\ call' # Idle
           /\ call'.name = call.name /\ call'.id = k /\ call'.index = call.index
           /\ call'.before = call.before /\ call'.phase = "doing" /\ saved' = saved
  <2>1. index.entry[k].etag <= upstream[k] /\ (k \in Remote => index.entry[k].etag < upstream[k])
    BY <1>2, <1>4, <1>5 DEF Fit
  <2>2. Fit(k)'
    BY <1>2, <1>6, <1>7, <1>8, <2>1, RefreshFit
  <2>3. AllFit'
    BY <1>1, <1>2, <1>6, <1>8, <2>2, OthersFit
  <2>4. Alone'
    BY <1>0, <1>1, <1>2, <1>6, <1>8 DEF Alone
  <2>5. RefreshForm'
    BY <1>1, <1>2, <1>3, <1>4, <1>6, <1>8 DEF RefreshForm
  <2> QED BY <1>8, <2>3, <2>4, <2>5 DEF Form
<1>9. CASE /\ docs' = docs /\ docs[k] = Of(v) /\ index' = call.index /\ call' = Idle
           /\ marred' = marred \ {k} /\ saved' = saved
  <2>1. k \in Remote => docs'[k] = Of(index'.entry[k].etag)
    BY <1>4, <1>9
  <2>2. Fit(k)'
    BY <1>2, <1>3, <1>4, <1>6, <1>7, <1>9, <2>1, RefreshFit
  <2>3. \A i \in Ids \ {k} : /\ docs'[i] = docs[i]
                             /\ index'.entry[i].etag = index.entry[i].etag
                             /\ i \in index'.named <=> i \in index.named
                             /\ i \in marred => i \in marred'
    BY <1>0, <1>1, <1>2, <1>9 DEF Alone
  <2>4. AllFit'
    BY <1>1, <1>2, <1>6, <1>9, <2>2, <2>3, OthersFit
  <2> QED BY <1>9, <2>4 DEF Form
<1>10. Installing(v) /\ call.name # "restore"
  BY <1>4
<1>11. call.name = "refresh" /\ call.id = k /\ call # Idle /\ Types
  BY <1>1, <1>2
<1> QED BY ZenonT(40), <1>8, <1>9, <1>10, <1>11, InstallGoes DEF half

LEMMA RefreshFails ==
  ASSUME StoreInv, call # Idle, call.name = "refresh", StepFails
  PROVE  AllFit' /\ Form'
<1>0. call.id \in Ids /\ call.phase = "doing"
  BY DEF StoreInv, StepFails, Types, CallTypes
<1>1. PICK k \in Ids : call.id = k
  BY <1>0
<1>2. /\ Types /\ AllFit /\ Alone /\ RefreshForm /\ ~Restores
      /\ Fit(k) /\ k \in index.named /\ born[k] # 0
      /\ call.before.docs[k] \in Doc /\ Whole(call.before.docs[k])
      /\ call.before.docs[k].config <= upstream[k]
      /\ saved # NoCheckpoint => k \in saved.covers
      /\ docs[k] \in Doc /\ upstream[k] \in 1 .. MaxVersion
      /\ index.entry[k].etag \in Versions /\ call.index.entry[k].etag \in Versions
  BY <1>1, RefreshIs
<1>3. k \in call.index.named /\ index = call.before.index
  BY <1>0, <1>1, <1>2 DEF RefreshForm
<1>4. PICK v \in 1 .. upstream[k] :
        /\ call.before.docs[k].config <= v /\ call.index.entry[k].etag <= upstream[k]
        /\ k \in Remote => call.index.entry[k].etag = v /\ index.entry[k].etag < v
        /\ Installing(v)
  BY <1>0, <1>1, <1>2 DEF RefreshForm
<1>5. v \in Nat /\ v >= 1 /\ v <= upstream[k] /\ upstream[k] \in Nat
      /\ index.entry[k].etag \in Nat
  BY <1>2, <1>4, BoundAssumption DEF Versions
<1>6. UNCHANGED <<upstream, born, job, saved>>
  BY DEF StepFails
<1> DEFINE old == call.before.docs[k]
           half == [source |-> v, config |-> old.config]
<1>7. /\ Whole(half) /\ Whole(Of(v)) /\ half.config <= upstream[k] /\ Of(v).config <= upstream[k]
      /\ half.config = old.config
  BY <1>2, <1>5 DEF Whole, Of
<1>8. /\ index.entry[k].etag <= upstream[k]
      /\ k \in Remote => index.entry[k].etag < upstream[k]
  BY <1>2, <1>4, <1>5 DEF Fit
<1>9. /\ \A i \in Ids \ {k} : docs'[i] = docs[i]
      /\ "late" \notin Faults => docs' = docs /\ index' = index
      /\ \/ /\ Next1 = Src(k, v) /\ docs[k] = old
            /\ docs'[k] \in {docs[k], [source |-> v, config |-> docs[k].config]}
            /\ index' = index
         \/ /\ Next1 = Cfg(k, v) /\ docs[k] = half
            /\ docs'[k] \in {docs[k], Of(v)}
            /\ index' = index
         \/ /\ Next1 = Idx /\ docs' = docs /\ docs[k] = Of(v)
            /\ index' \in {index, call.index}
  <2>1. Installing(v)
    BY <1>4
  <2> QED BY <1>1, <1>2, <2>1, InstallFails
<1> HIDE DEF half, old
<1>10. Undo(Next1) = UndoCommit(Next1) /\ Undo(Next1) \in Seq(Writes)
  BY <1>2, UndoTypes DEF Undo
<1>11. \/ Undo(Next1) = <<>> /\ call' = Idle
       \/ /\ Undo(Next1) # <<>> /\ call' # Idle
          /\ call'.name = "refresh" /\ call'.id = k /\ call'.before = call.before
          /\ call'.todo = Undo(Next1) /\ call'.phase = "undoing"
  BY <1>1, <1>2, <1>10, GoesOn DEF StepFails
<1>12. /\ index' # index /\ Undo(Next1) # <<>> => marred' = marred \cup {k}
       /\ ~(index' # index /\ Undo(Next1) # <<>>) => marred' = marred
  BY <1>1 DEF StepFails
<1>13. marred \subseteq marred' /\ k \in index'.named /\ index'.entry[k].etag <= upstream[k]
  BY <1>2, <1>3, <1>4, <1>8, <1>9, <1>12
<1>14. Whole(docs'[k]) /\ docs'[k].config <= upstream[k]
  <2>1. docs[k] = old => [source |-> v, config |-> docs[k].config] = half
    BY DEF half
  <2> QED BY <1>2, <1>7, <1>9, <2>1 DEF old
<1>15. \/ k \in marred'
       \/ k \in Remote => \/ index'.entry[k].etag < upstream[k]
                          \/ docs'[k] = Of(index'.entry[k].etag) /\ docs'[k] = old
                          \/ docs'[k] = Of(index'.entry[k].etag) /\ Undo(Next1) = <<>>
  <2>1. CASE index' = index
    BY <1>8, <2>1
  <2>2. CASE index' # index
    <3>1. docs'[k] = Of(v) /\ index' = call.index
      BY <1>9, <2>2
    <3>2. CASE Undo(Next1) # <<>>
      BY <1>12, <2>2, <3>2
    <3>3. CASE Undo(Next1) = <<>>
      BY <1>4, <3>1, <3>3
    <3> QED BY <3>2, <3>3
  <2> QED BY <2>1, <2>2
<1>16. Fit(k)'
  BY <1>2, <1>6, <1>13, <1>14, <1>15, RefreshFit
<1>17. \A i \in Ids \ {k} : /\ docs'[i] = docs[i]
                            /\ index'.entry[i].etag = index.entry[i].etag
                            /\ i \in index'.named <=> i \in index.named
                            /\ i \in marred => i \in marred'
  BY <1>0, <1>1, <1>2, <1>9, <1>13 DEF Alone
<1>18. AllFit'
  BY <1>1, <1>2, <1>6, <1>16, <1>17, OthersFit
<1>19. CASE call' = Idle
  BY <1>18, <1>19 DEF Form
<1>20. CASE Undo(Next1) # <<>>
  <2>1. Alone'
    BY <1>1, <1>2, <1>6, <1>9, <1>11, <1>20 DEF Alone
  <2>2. /\ Undo(Next1) \in {<<Src(k, old.source)>>,
                            <<Src(k, old.source), Cfg(k, old.config)>>}
        /\ Undo(Next1) = <<Src(k, old.source)>> => docs[k] = half
    <3>1. CASE Next1 = Src(k, v)
      <4>1. Undo(Next1) = <<>>
        BY <1>10, <3>1 DEF UndoCommit, Src
      <4> QED BY <1>20, <4>1
    <3>2. CASE Next1 = Cfg(k, v) /\ docs[k] = half
      <4>1. Undo(Next1) = PutSource(k, old)
        BY <1>1, <1>10, <3>2 DEF UndoCommit, Cfg, old
      <4> QED BY <3>2, <4>1, Lists
    <3>3. CASE Next1 = Idx
      <4>1. Undo(Next1) = Put(k, old)
        BY <1>1, <1>10, <1>20, <3>3 DEF UndoCommit, Idx, old
      <4>2. Undo(Next1) = <<Src(k, old.source), Cfg(k, old.config)>>
        BY <4>1, Lists
      <4>3. <<Src(k, old.source), Cfg(k, old.config)>> # <<Src(k, old.source)>>
        OBVIOUS
      <4> QED BY <4>2, <4>3
    <3> QED BY <1>9, <3>1, <3>2, <3>3
  <2>3. <<Cfg(k, old.config)>> \notin {<<Src(k, old.source)>>,
                                       <<Src(k, old.source), Cfg(k, old.config)>>}
    <3>1. Cfg(k, old.config) # Src(k, old.source)
      BY DEF Cfg, Src
    <3> QED BY <3>1
  <2>4. "late" \notin Faults =>
          /\ index' = call.before.index
          /\ Undo(Next1) = <<Src(k, old.source)>> => docs'[k].config = old.config
    BY <1>3, <1>7, <1>9, <2>2
  <2>5. k \in marred' \/ (k \in Remote => index'.entry[k].etag < upstream[k])
    BY SMTT(40), <1>8, <1>12, <1>20
  <2>6. RefreshForm'
    BY <1>2, <1>6, <1>11, <1>13, <1>14, <1>20, <2>2, <2>3, <2>4, <2>5 DEF RefreshForm, old
  <2> QED BY <1>11, <1>18, <1>20, <2>1, <2>6 DEF Form
<1> QED BY <1>11, <1>19, <1>20

LEMMA RefreshUndone ==
  ASSUME StoreInv, call # Idle, call.name = "refresh", UndoOK \/ UndoFails
  PROVE  AllFit' /\ Form'
<1>0. call.id \in Ids /\ call.phase # "doing" /\ call.phase \in {"undoing", "dirty"}
  BY DEF StoreInv, UndoOK, UndoFails, Types, CallTypes, Call
<1>1. PICK k \in Ids : call.id = k
  BY <1>0
<1>2. /\ Types /\ AllFit /\ Alone /\ RefreshForm /\ ~Restores
      /\ Fit(k) /\ k \in index.named /\ born[k] # 0
      /\ call.before.docs[k] \in Doc /\ Whole(call.before.docs[k])
      /\ call.before.docs[k].config <= upstream[k]
      /\ saved # NoCheckpoint => k \in saved.covers
      /\ docs[k] \in Doc /\ upstream[k] \in 1 .. MaxVersion
      /\ index.entry[k].etag \in Versions /\ call.index.entry[k].etag \in Versions
  BY <1>1, RefreshIs
<1> DEFINE old == call.before.docs[k]
<1>3. /\ Whole(docs[k])
      /\ k \in marred \/ (k \in Remote => index.entry[k].etag < upstream[k])
      /\ call.todo \in {<<Src(k, old.source), Cfg(k, old.config)>>,
                        <<Src(k, old.source)>>, <<Cfg(k, old.config)>>}
      /\ "late" \notin Faults /\ call.phase = "undoing" => index = call.before.index
  BY <1>0, <1>1, <1>2 DEF RefreshForm
<1>4. UNCHANGED <<upstream, born, job, saved, marred>>
  BY DEF UndoOK, UndoFails
<1>5. \/ Next1 = Src(k, old.source) /\ Rest \in {<<>>, <<Cfg(k, old.config)>>}
      \/ Next1 = Cfg(k, old.config) /\ Rest = <<>>
  <2> DEFINE a == Src(k, old.source)
             b == Cfg(k, old.config)
  <2>1. call.todo \in {<<a, b>>, <<a>>, <<b>>}
    BY <1>3
  <2> HIDE DEF a, b
  <2>2. /\ Head(<<a, b>>) = a /\ Tail(<<a, b>>) = <<b>> /\ Head(<<a>>) = a
        /\ Tail(<<a>>) = <<>> /\ Head(<<b>>) = b /\ Tail(<<b>>) = <<>>
    BY Heads
  <2>3. \/ Next1 = a /\ Rest \in {<<>>, <<b>>}
        \/ Next1 = b /\ Rest = <<>>
    BY <2>1, <2>2 DEF Next1, Rest
  <2> QED BY <2>3 DEF a, b
<1> DEFINE one == [source |-> old.source, config |-> docs[k].config]
           two == [source |-> docs[k].source, config |-> old.config]
<1>6. /\ index' = index
      /\ docs' \in {docs, [docs EXCEPT ![k] = one], [docs EXCEPT ![k] = two]}
      /\ Next1 = Src(k, old.source) /\ UndoOK => docs' = [docs EXCEPT ![k] = one]
  <2>1. CASE Next1 = Src(k, old.source)
    BY <1>2, <2>1, SrcDoes DEF UndoOK, UndoFails, Failed
  <2>2. CASE Next1 = Cfg(k, old.config)
    <3>1. Cfg(k, old.config) # Src(k, old.source)
      BY DEF Cfg, Src
    <3> QED BY <1>2, <2>2, <3>1, CfgDoes DEF UndoOK, UndoFails, Failed
  <2> QED BY <1>5, <2>1, <2>2
<1>7. /\ Whole(one) /\ Whole(two)
      /\ one.config <= upstream[k] /\ two.config <= upstream[k]
      /\ one.source = old.source
  BY <1>2, <1>3 DEF Fit, Whole
<1> HIDE DEF one, two
<1>8. /\ \A i \in Ids \ {k} : docs'[i] = docs[i]
      /\ docs'[k] \in {docs[k], one, two}
      /\ Next1 = Src(k, old.source) /\ UndoOK => docs'[k] = one
  BY <1>2, <1>6, StaysHome
<1>9. Whole(docs'[k]) /\ docs'[k].config <= upstream[k]
  BY <1>2, <1>3, <1>7, <1>8 DEF Fit
<1>10. k \in index'.named /\ index'.entry[k].etag <= upstream[k]
  BY <1>2, <1>6 DEF Fit
<1>11. Fit(k)'
  <2>1. k \in marred' \/ (k \in Remote => index'.entry[k].etag < upstream[k])
    BY <1>3, <1>4, <1>6
  <2> QED BY <1>2, <1>4, <1>9, <1>10, <2>1, RefreshFit
<1>12. AllFit'
  BY <1>1, <1>2, <1>4, <1>6, <1>8, <1>11, OthersFit
<1>13. CASE Rest = <<>>
  <2>1. call' = Idle
    BY <1>13 DEF UndoOK, UndoFails, Going
  <2> QED BY <1>12, <2>1 DEF Form
<1>14. CASE Next1 = Src(k, old.source) /\ Rest = <<Cfg(k, old.config)>>
  <2>1. Rest \in Seq(Writes) /\ Rest # <<>>
    BY <1>2, <1>14, Taken, Heads
  <2>2. /\ call' # Idle /\ call'.name = "refresh" /\ call'.id = k
        /\ call'.before = call.before /\ call'.todo = <<Cfg(k, old.config)>>
        /\ call'.phase = IF UndoOK THEN call.phase ELSE "dirty"
    <3>1. CASE UndoOK
      BY <1>0, <1>1, <1>2, <1>14, <2>1, <3>1, GoesOn DEF UndoOK
    <3>2. CASE UndoFails /\ ~UndoOK
      BY <1>0, <1>1, <1>2, <1>14, <2>1, <3>2, GoesOn DEF UndoFails
    <3> QED BY <3>1, <3>2
  <2>3. Alone'
    BY <1>0, <1>1, <1>2, <1>4, <1>8, <2>2 DEF Alone
  <2>4. <<Cfg(k, old.config)>> # <<Src(k, old.source)>>
    <3>1. Cfg(k, old.config) # Src(k, old.source)
      BY DEF Cfg, Src
    <3> QED BY <3>1
  <2>5. call'.phase # "doing"
    BY <1>0, <2>2
  <2>6. "late" \notin Faults /\ call'.phase = "undoing" =>
          index' = call.before.index /\ docs'[k].source = old.source
    BY SMTT(40), <1>3, <1>6, <1>7, <1>8, <1>14, <2>2
  <2>7. k \in marred' \/ (k \in Remote => index'.entry[k].etag < upstream[k])
    BY <1>3, <1>4, <1>6
  <2>8. RefreshForm'
    BY <1>2, <1>4, <1>9, <1>10, <2>2, <2>4, <2>5, <2>6, <2>7 DEF RefreshForm
  <2> QED BY <1>12, <2>2, <2>3, <2>8 DEF Form
<1> QED BY <1>5, <1>13, <1>14

-----------------------------------------------------------------------------
(* The steps of a restore.                                                 *)

LEMMA LeftIs ==
  ASSUME Types, call # Idle
  PROVE  /\ Len(Rest) \in Nat /\ Len(call.todo) = Len(Rest) + 1
         /\ Next1 = call.todo[1]
         /\ \A k \in 1 .. Len(Rest) : Rest[k] = call.todo[k + 1]
         /\ Left = {Next1} \cup {Rest[k] : k \in 1 .. Len(Rest)}
<1> DEFINE s == call.todo
           n == Len(Rest)
<1>1. s \in Seq(Writes) /\ s # <<>>
  BY DEF Types, CallTypes
<1>2. /\ Len(Tail(s)) = Len(s) - 1 /\ Len(s) \in Nat /\ Len(s) >= 1
      /\ \A k \in 1 .. Len(Tail(s)) : Tail(s)[k] = s[k + 1]
      /\ Head(s) = s[1]
  BY <1>1, HeadTailProperties, EmptySeq, LenProperties
<1>3. Rest = Tail(s) /\ Next1 = Head(s) /\ Left = {s[k] : k \in 1 .. Len(s)}
  BY DEF Rest, Next1, Left
<1>4. n \in Nat /\ Len(s) = n + 1
  BY <1>2, <1>3
<1>5. Next1 = s[1] /\ \A k \in 1 .. n : Rest[k] = s[k + 1]
  BY <1>2, <1>3
<1>6. Left = {s[k] : k \in 1 .. n + 1}
  BY <1>3, <1>4
<1> HIDE DEF s, n
<1>7. ASSUME NEW w \in Left PROVE w \in {Next1} \cup {Rest[k] : k \in 1 .. n}
  <2>1. PICK k \in 1 .. n + 1 : w = s[k]
    BY <1>6, <1>7
  <2>2. CASE k = 1
    BY <1>5, <2>1, <2>2
  <2>3. CASE k # 1
    <3>1. (k - 1) \in 1 .. n /\ k = (k - 1) + 1
      BY <1>4, <2>1, <2>3
    <3>2. Rest[k - 1] = w
      BY <1>5, <2>1, <3>1
    <3> QED BY <3>1, <3>2
  <2> QED BY <2>2, <2>3
<1>8. ASSUME NEW w \in {Next1} \cup {Rest[k] : k \in 1 .. n} PROVE w \in Left
  <2>1. 1 \in 1 .. n + 1 /\ \A k \in 1 .. n : (k + 1) \in 1 .. n + 1
    BY <1>4
  <2>2. CASE w = Next1
    BY <1>5, <1>6, <2>1, <2>2
  <2>3. CASE w # Next1
    <3>1. PICK k \in 1 .. n : w = Rest[k]
      BY <1>8, <2>3
    <3>2. w = s[k + 1] /\ (k + 1) \in 1 .. n + 1
      BY <1>5, <2>1, <3>1
    <3> QED BY <1>6, <3>2
  <2> QED BY <2>2, <2>3
<1>9. Left = {Next1} \cup {Rest[k] : k \in 1 .. n}
  BY <1>7, <1>8
<1> QED BY <1>4, <1>5, <1>9 DEF s, n

(* The next write of a restore, and what it may change.                    *)
LEMMA RestoreDoes ==
  ASSUME StoreInv, call # Idle, call.name = "restore", StepOK \/ StepFails
  PROVE  /\ Types /\ AllFit /\ RestoreForm /\ saved \in Checkpoint
         /\ \/ /\ Next1 = Idx /\ docs' = docs /\ index' \in {index, saved.index}
               /\ StepOK => index' = saved.index
            \/ \E i \in saved.covers :
                 /\ Next1 = Src(i, saved.docs[i].source) /\ index' = index
                 /\ \/ docs' = docs /\ StepFails
                    \/ docs' = [docs EXCEPT ![i] = [source |-> saved.docs[i].source,
                                                    config |-> docs[i].config]]
            \/ \E i \in saved.covers :
                 /\ Next1 = Cfg(i, saved.docs[i].config) /\ index' = index
                 /\ \/ docs' = docs /\ StepFails
                    \/ docs' = [docs EXCEPT ![i] = [source |-> docs[i].source,
                                                    config |-> saved.docs[i].config]]
            \/ \E i \in Ids \ saved.covers :
                 /\ Next1 = Dir(i) /\ saved.docs[i] = Gone /\ index' = index
                 /\ \E s \in {0, docs[i].source}, f \in {0, docs[i].config} :
                      /\ docs' = [docs EXCEPT ![i] = [source |-> s, config |-> f]]
                      /\ StepOK => s = 0 /\ f = 0
<1>1. Types /\ AllFit /\ RestoreForm /\ saved # NoCheckpoint /\ saved \in Checkpoint
  BY DEF StoreInv, Form, Types, RestoreForm
<1>2. Next1 \in Left /\ call.index = saved.index /\ saved.covers \subseteq Ids
  BY <1>1, LeftIs DEF RestoreForm, Checkpoint
<1>3. StepOK => docs' = Written(Next1) /\ index' = Indexed(Next1)
  BY DEF StepOK
<1>4. \/ docs' = Written(Next1) /\ index' = Indexed(Next1)
      \/ StepFails /\ docs' \in Leftovers(Next1) /\ index' = index
  BY DEF StepOK, StepFails, Failed
<1>5. CASE Next1 = Idx
  <2>1. docs' = docs /\ index' \in {index, saved.index}
    BY <1>2, <1>4, <1>5, IdxDoes
  <2>2. StepOK => index' = saved.index
    BY <1>2, <1>3, <1>5, IdxDoes
  <2> QED BY <1>1, <1>5, <2>1, <2>2
<1>6. ASSUME NEW i \in saved.covers, Next1 = Src(i, saved.docs[i].source)
      PROVE  /\ index' = index
             /\ \/ docs' = docs /\ StepFails
                \/ docs' = [docs EXCEPT ![i] = [source |-> saved.docs[i].source,
                                                config |-> docs[i].config]]
  BY <1>1, <1>2, <1>4, <1>6, SrcDoes
<1>7. ASSUME NEW i \in saved.covers, Next1 = Cfg(i, saved.docs[i].config)
      PROVE  /\ index' = index
             /\ \/ docs' = docs /\ StepFails
                \/ docs' = [docs EXCEPT ![i] = [source |-> docs[i].source,
                                                config |-> saved.docs[i].config]]
  BY <1>1, <1>2, <1>4, <1>7, CfgDoes
<1>8. ASSUME NEW i \in Ids \ saved.covers, Next1 = Dir(i)
      PROVE  /\ index' = index
             /\ \E s \in {0, docs[i].source}, f \in {0, docs[i].config} :
                  /\ docs' = [docs EXCEPT ![i] = [source |-> s, config |-> f]]
                  /\ StepOK => s = 0 /\ f = 0
  <2>1. index' = index
    BY <1>1, <1>4, <1>8, DirDoes
  <2>2. CASE docs' = Written(Next1)
    <3>1. docs' = [docs EXCEPT ![i] = [source |-> 0, config |-> 0]]
      BY <1>1, <1>8, <2>2, DirDoes DEF Gone
    <3> QED BY <2>1, <3>1
  <2>3. CASE docs' # Written(Next1)
    <3>1. ~StepOK /\ docs' \in Leftovers(Next1)
      BY <1>3, <1>4, <2>3
    <3>2. Leftovers(Next1) = Leftovers(Dir(i))
      BY <1>8
    <3>3. \E s \in {0, docs[i].source}, f \in {0, docs[i].config} :
            docs' = [docs EXCEPT ![i] = [source |-> s, config |-> f]]
      BY <1>1, <3>1, <3>2, DirDoes
    <3> QED BY <2>1, <3>1, <3>3
  <2> QED BY <2>2, <2>3
<1>9. \/ Next1 = Idx
      \/ \E i \in saved.covers :
           Next1 \in {Src(i, saved.docs[i].source), Cfg(i, saved.docs[i].config)}
      \/ \E i \in Ids \ saved.covers : saved.docs[i] = Gone /\ Next1 = Dir(i)
  BY <1>1, <1>2 DEF RestoreForm
<1> QED BY <1>1, <1>5, <1>6, <1>7, <1>8, <1>9

(* When the index is next, the documents are restored; when directories    *)
(* are, the index is.                                                      *)
LEMMA RestoreOrder ==
  ASSUME Types, call # Idle, RestoreForm, saved \in Checkpoint
  PROVE  /\ Next1.file \in {"index", "directory"} =>
              /\ \A k \in 1 .. Len(Rest) : Rest[k].file = "directory"
              /\ \A i \in saved.covers : docs[i] = saved.docs[i]
         /\ Next1.file = "directory" => index = saved.index
<1>1. ASSUME Next1.file \in {"index", "directory"}, NEW k \in 1 .. Len(Rest)
      PROVE  Rest[k].file = "directory"
  <2>1. 1 \in 1 .. Len(call.todo) /\ (k + 1) \in 1 .. Len(call.todo) /\ 1 < k + 1
    BY LeftIs
  <2>2. call.todo[1].file \in {"index", "directory"}
    BY <1>1, LeftIs
  <2>3. call.todo[k + 1].file = "directory"
    BY <2>1, <2>2 DEF RestoreForm
  <2> QED BY <2>3, LeftIs
<1>2. Next1.file \in {"index", "directory"} =>
        \A w \in Left : w.file \in {"index", "directory"}
  BY <1>1, LeftIs
<1>3. Next1.file = "directory" => \A w \in Left : w.file = "directory"
  BY <1>1, LeftIs
<1>4. ASSUME Next1.file \in {"index", "directory"}, NEW i \in saved.covers
      PROVE  docs[i] = saved.docs[i]
  <2>1. /\ Src(i, saved.docs[i].source) \notin Left
        /\ Cfg(i, saved.docs[i].config) \notin Left
    <3>1. /\ Src(i, saved.docs[i].source).file = "source"
          /\ Cfg(i, saved.docs[i].config).file = "config"
      BY DEF Src, Cfg
    <3> QED BY <1>2, <1>4, <3>1
  <2>2. docs[i].source = saved.docs[i].source /\ docs[i].config = saved.docs[i].config
    BY <2>1 DEF RestoreForm
  <2>3. docs[i] \in Doc /\ saved.docs[i] \in Doc
    BY DEF Types, Checkpoint
  <2> QED BY <2>2, <2>3 DEF Doc
<1>5. Next1.file = "directory" => index = saved.index
  <2>1. Idx.file = "index"
    BY DEF Idx
  <2> QED BY <1>3, <2>1 DEF RestoreForm
<1> QED BY <1>1, <1>4, <1>5

(* Between the writes of a restore every profile is fit, if the covered    *)
(* ones count as marred from the moment the restore gives up.              *)
LEMMA RestoreFit ==
  ASSUME StoreInv, call # Idle, call.name = "restore", StepOK \/ StepFails,
         UNCHANGED <<upstream, born, saved>>, marred \subseteq marred',
         \A i \in saved.covers : i \in marred' \/ Restores'
  PROVE  \A i \in Ids : Fit(i)'
<1>1. Types /\ AllFit /\ RestoreForm /\ saved \in Checkpoint /\ saved # NoCheckpoint
  BY RestoreDoes DEF RestoreForm
<1>2. \A i \in Ids : Fit(i) /\ SavedFit(i)
  BY <1>1 DEF AllFit
<1>3. saved.covers \subseteq Ids
  BY <1>1 DEF Checkpoint
<1>4. ASSUME NEW i \in Ids, docs'[i] = docs[i], index' = index PROVE Fit(i)'
  BY <1>2, <1>4, FitKept
<1>5. CASE docs' = docs /\ index' = index
  BY <1>4, <1>5
<1>6. CASE Next1 = Idx /\ docs' = docs /\ index' = saved.index
  <2>1. Next1.file = "index"
    BY <1>6 DEF Idx
  <2>2. \A i \in saved.covers : docs[i] = saved.docs[i]
    BY <1>1, <2>1, RestoreOrder
  <2>3. ASSUME NEW i \in Ids, i \in saved.covers PROVE Fit(i)'
    BY <1>1, <1>2, <1>6, <2>2, <2>3 DEF Fit, SavedFit
  <2>4. ASSUME NEW i \in Ids, i \notin saved.covers PROVE Fit(i)'
    <3>1. i \in saved.index.named => docs[i] = saved.docs[i]
      BY <1>1, <1>2, <2>4 DEF Fit, SavedFit
    <3>2. i \in saved.marred => i \in marred'
      BY <1>1, <1>2, <2>4 DEF Fit
    <3> QED BY <1>1, <1>2, <1>6, <2>4, <3>1, <3>2 DEF Fit, SavedFit
  <2> QED BY <2>3, <2>4
<1>7. ASSUME NEW k \in saved.covers, NEW d, index' = index,
             docs' = [docs EXCEPT ![k] = d],
             d.source \in {docs[k].source, saved.docs[k].source},
             d.config \in {docs[k].config, saved.docs[k].config}
      PROVE  \A i \in Ids : Fit(i)'
  <2>0. k \in Ids
    BY <1>3
  <2>1. docs'[k] = d /\ \A i \in Ids \ {k} : docs'[i] = docs[i]
    BY <1>1, <1>7, <2>0, StaysHome
  <2>2. /\ Whole(saved.docs[k]) /\ born[k] # 0
        /\ saved.docs[k].config <= upstream[k]
    BY <1>1, <1>2, <2>0 DEF SavedFit
  <2>3. Whole(docs[k]) => Whole(d)
    BY <1>7, <2>2 DEF Whole
  <2>4. Fit(k)'
    BY <1>1, <1>2, <1>7, <2>0, <2>1, <2>2, <2>3 DEF Fit
  <2> QED BY <1>4, <1>7, <2>1, <2>4
<1>8. ASSUME NEW k \in Ids \ saved.covers, Next1 = Dir(k), saved.docs[k] = Gone, index' = index,
             NEW s \in {0, docs[k].source}, NEW f \in {0, docs[k].config},
             docs' = [docs EXCEPT ![k] = [source |-> s, config |-> f]]
      PROVE  \A i \in Ids : Fit(i)'
  <2> DEFINE d == [source |-> s, config |-> f]
  <2>1. docs'[k] = d /\ \A i \in Ids \ {k} : docs'[i] = docs[i]
    BY <1>1, <1>8, StaysHome
  <2>2. Next1.file = "directory"
    BY <1>8 DEF Dir
  <2>3. k \notin index.named
    BY <1>1, <1>2, <1>8, <2>2, RestoreOrder DEF SavedFit
  <2>4. d.config \in {0, docs[k].config} /\ (docs[k] = Gone => d = Gone)
    BY DEF Gone
  <2>5. 0 <= upstream[k]
    BY <1>1, Shaped
  <2> HIDE DEF d
  <2>6. Fit(k)'
    BY <1>1, <1>2, <1>8, <2>1, <2>3, <2>4, <2>5 DEF Fit
  <2> QED BY <1>4, <1>8, <2>1, <2>6
<1>9. \/ docs' = docs /\ index' = index
      \/ Next1 = Idx /\ docs' = docs /\ index' = saved.index
      \/ \E k \in saved.covers :
           /\ index' = index
           /\ docs' \in {[docs EXCEPT ![k] = [source |-> saved.docs[k].source,
                                              config |-> docs[k].config]],
                         [docs EXCEPT ![k] = [source |-> docs[k].source,
                                              config |-> saved.docs[k].config]]}
      \/ \E k \in Ids \ saved.covers :
           /\ Next1 = Dir(k) /\ saved.docs[k] = Gone /\ index' = index
           /\ \E s \in {0, docs[k].source}, f \in {0, docs[k].config} :
                docs' = [docs EXCEPT ![k] = [source |-> s, config |-> f]]
  BY RestoreDoes
<1> QED BY <1>5, <1>6, <1>7, <1>8, <1>9

(* A write that succeeds brings one piece back; the others wait in Rest.   *)
LEMMA RestoreAdvances ==
  ASSUME StoreInv, call # Idle, call.name = "restore", StepOK,
         NEW R, R = {Rest[k] : k \in 1 .. Len(Rest)}
  PROVE  /\ \A i \in saved.covers :
              /\ \/ docs'[i].source = saved.docs[i].source
                 \/ Src(i, saved.docs[i].source) \in R
              /\ \/ docs'[i].config = saved.docs[i].config
                 \/ Cfg(i, saved.docs[i].config) \in R
         /\ index' = saved.index \/ Idx \in R
         /\ \A i \in Ids \ saved.covers :
              docs'[i] = saved.docs[i] \/ (saved.docs[i] = Gone /\ Dir(i) \in R)
<1> DEFINE Back ==
      /\ \A i \in saved.covers :
           /\ \/ docs'[i].source = saved.docs[i].source
              \/ Src(i, saved.docs[i].source) \in R
           /\ \/ docs'[i].config = saved.docs[i].config
              \/ Cfg(i, saved.docs[i].config) \in R
      /\ index' = saved.index \/ Idx \in R
      /\ \A i \in Ids \ saved.covers :
           docs'[i] = saved.docs[i] \/ (saved.docs[i] = Gone /\ Dir(i) \in R)
<1>1. SUFFICES Back
  OBVIOUS
<1>2. Types /\ RestoreForm /\ saved.covers \subseteq Ids
  BY RestoreDoes DEF Checkpoint
<1>3. Left = {Next1} \cup R
  BY <1>2, LeftIs
<1>4. /\ \A i, j, v, w : Src(i, v) # Cfg(j, w) /\ Src(i, v) # Idx /\ Src(i, v) # Dir(j)
                         /\ Cfg(i, v) # Idx /\ Cfg(i, v) # Dir(j) /\ Idx # Dir(j)
      /\ \A i, j, v, w : Src(i, v) = Src(j, w) => i = j
      /\ \A i, j, v, w : Cfg(i, v) = Cfg(j, w) => i = j
      /\ \A i, j : Dir(i) = Dir(j) => i = j
  BY DEF Src, Cfg, Idx, Dir
<1>5. CASE Next1 = Idx /\ docs' = docs /\ index' = saved.index
  BY ZenonT(40), <1>2, <1>3, <1>4, <1>5 DEF RestoreForm
<1>6. ASSUME NEW k \in saved.covers, Next1 = Src(k, saved.docs[k].source), index' = index,
             docs' = [docs EXCEPT ![k] = [source |-> saved.docs[k].source,
                                          config |-> docs[k].config]]
      PROVE  Back
  <2>1. /\ docs'[k].source = saved.docs[k].source /\ docs'[k].config = docs[k].config
        /\ \A i \in Ids \ {k} : docs'[i] = docs[i]
    <3> DEFINE d == [source |-> saved.docs[k].source, config |-> docs[k].config]
    <3>1. d.source = saved.docs[k].source /\ d.config = docs[k].config
      OBVIOUS
    <3>2. k \in Ids /\ docs' = [docs EXCEPT ![k] = d]
      BY <1>2, <1>6
    <3> HIDE DEF d
    <3> QED BY <1>2, <3>1, <3>2, StaysHome
  <2>2. \A i \in saved.covers : Cfg(i, saved.docs[i].config) # Next1
    BY <1>4, <1>6
  <2>3. \A i \in saved.covers \ {k} : Src(i, saved.docs[i].source) # Next1
    BY <1>4, <1>6
  <2>4. Idx # Next1 /\ \A i \in Ids : Dir(i) # Next1
    BY <1>4, <1>6
  <2> QED BY <1>2, <1>3, <1>6, <2>1, <2>2, <2>3, <2>4 DEF RestoreForm
<1>7. ASSUME NEW k \in saved.covers, Next1 = Cfg(k, saved.docs[k].config), index' = index,
             docs' = [docs EXCEPT ![k] = [source |-> docs[k].source,
                                          config |-> saved.docs[k].config]]
      PROVE  Back
  <2>1. /\ docs'[k].config = saved.docs[k].config /\ docs'[k].source = docs[k].source
        /\ \A i \in Ids \ {k} : docs'[i] = docs[i]
    <3> DEFINE d == [source |-> docs[k].source, config |-> saved.docs[k].config]
    <3>1. d.config = saved.docs[k].config /\ d.source = docs[k].source
      OBVIOUS
    <3>2. k \in Ids /\ docs' = [docs EXCEPT ![k] = d]
      BY <1>2, <1>7
    <3> HIDE DEF d
    <3> QED BY <1>2, <3>1, <3>2, StaysHome
  <2>2. \A i \in saved.covers : Src(i, saved.docs[i].source) # Next1
    BY <1>4, <1>7
  <2>3. \A i \in saved.covers \ {k} : Cfg(i, saved.docs[i].config) # Next1
    BY <1>4, <1>7
  <2>4. Idx # Next1 /\ \A i \in Ids : Dir(i) # Next1
    BY <1>4, <1>7
  <2> QED BY <1>2, <1>3, <1>7, <2>1, <2>2, <2>3, <2>4 DEF RestoreForm
<1>8. ASSUME NEW k \in Ids \ saved.covers, Next1 = Dir(k), saved.docs[k] = Gone,
             index' = index, docs' = [docs EXCEPT ![k] = Gone]
      PROVE  Back
  <2>1. docs'[k] = Gone /\ \A i \in Ids \ {k} : docs'[i] = docs[i]
    BY <1>2, <1>8, StaysHome
  <2>2. \A i \in saved.covers : Src(i, saved.docs[i].source) # Next1
                                /\ Cfg(i, saved.docs[i].config) # Next1
    BY <1>4, <1>8
  <2>3. Idx # Next1 /\ \A i \in Ids \ {k} : Dir(i) # Next1
    BY <1>4, <1>8
  <2> QED BY <1>2, <1>3, <1>8, <2>1, <2>2, <2>3 DEF RestoreForm
<1>9. \/ Next1 = Idx /\ docs' = docs /\ index' = saved.index
      \/ \E i \in saved.covers :
           /\ Next1 = Src(i, saved.docs[i].source) /\ index' = index
           /\ docs' = [docs EXCEPT ![i] = [source |-> saved.docs[i].source,
                                           config |-> docs[i].config]]
      \/ \E i \in saved.covers :
           /\ Next1 = Cfg(i, saved.docs[i].config) /\ index' = index
           /\ docs' = [docs EXCEPT ![i] = [source |-> docs[i].source,
                                           config |-> saved.docs[i].config]]
      \/ \E i \in Ids \ saved.covers :
           /\ Next1 = Dir(i) /\ saved.docs[i] = Gone /\ index' = index
           /\ docs' = [docs EXCEPT ![i] = Gone]
  <2>1. docs' = Written(Next1)
    BY DEF StepOK
  <2>2. ASSUME NEW i \in saved.covers, Next1 = Src(i, saved.docs[i].source)
        PROVE docs' = [docs EXCEPT ![i] = [source |-> saved.docs[i].source,
                                           config |-> docs[i].config]]
    BY <1>2, <2>1, <2>2, SrcDoes
  <2>3. ASSUME NEW i \in saved.covers, Next1 = Cfg(i, saved.docs[i].config)
        PROVE docs' = [docs EXCEPT ![i] = [source |-> docs[i].source,
                                           config |-> saved.docs[i].config]]
    BY <1>2, <2>1, <2>3, CfgDoes
  <2>4. ASSUME NEW i \in Ids, Next1 = Dir(i) PROVE docs' = [docs EXCEPT ![i] = Gone]
    BY <1>2, <2>1, <2>4, DirDoes
  <2> QED BY <2>2, <2>3, <2>4, RestoreDoes
<1> QED BY <1>5, <1>6, <1>7, <1>8, <1>9

LEMMA RestoreEnds ==
  ASSUME StoreInv, call # Idle, call.name = "restore", StepOK, Rest = <<>>
  PROVE  docs' = saved.docs /\ index' = saved.index
<1> DEFINE R == {Rest[k] : k \in 1 .. Len(Rest)}
<1>1. R = {}
  BY EmptySeq
<1>2. /\ \A i \in saved.covers : /\ docs'[i].source = saved.docs[i].source
                                 /\ docs'[i].config = saved.docs[i].config
      /\ index' = saved.index
      /\ \A i \in Ids \ saved.covers : docs'[i] = saved.docs[i]
  <2> HIDE DEF R
  <2>1. R = {Rest[k] : k \in 1 .. Len(Rest)}
    BY DEF R
  <2> QED BY <1>1, <2>1, RestoreAdvances
<1>3. docs' \in [Ids -> Doc] /\ saved.docs \in [Ids -> Doc]
  <2>1. Types'
    <3>1. [Next]_vars
      BY DEF Next
    <3> QED BY <3>1, TypesKept DEF StoreInv
  <2> QED BY <2>1, RestoreDoes DEF Types, Checkpoint
<1>4. \A i \in saved.covers : docs'[i] = saved.docs[i]
  <2> TAKE i \in saved.covers
  <2>1. i \in Ids
    BY RestoreDoes DEF Checkpoint
  <2>2. docs'[i] \in Doc /\ saved.docs[i] \in Doc
    BY <1>3, <2>1
  <2> QED BY <1>2, <2>2 DEF Doc
<1>5. \A i \in Ids : docs'[i] = saved.docs[i]
  BY <1>2, <1>4
<1> QED BY <1>2, <1>3, <1>5

LEMMA RestoreGoes ==
  ASSUME StoreInv, call # Idle, call.name = "restore", StepOK \/ StepFails
  PROVE  AllFit' /\ Form'
<1>1. Types /\ AllFit /\ RestoreForm /\ saved \in Checkpoint /\ saved # NoCheckpoint
  BY RestoreDoes DEF RestoreForm
<1>2. UNCHANGED <<upstream, born, job>>
  BY DEF StepOK, StepFails
<1>3. \A c \in Clients : JobFit(c)'
  BY <1>1, <1>2 DEF AllFit, JobFit
<1>4. CASE StepFails
  <2>1. call' = Idle
    BY <1>4 DEF StepFails, Undo, Going
  <2>2. saved' = saved /\ marred' = marred \cup saved.covers
    BY <1>4 DEF StepFails
  <2>3. \A i \in Ids : Fit(i)'
    BY <1>2, <2>2, RestoreFit
  <2>4. \A i \in Ids : SavedFit(i)'
    BY <1>1, <1>2, <2>2, SavedKept DEF AllFit
  <2> QED BY <1>3, <2>1, <2>3, <2>4 DEF AllFit, Form
<1>5. CASE StepOK /\ Rest = <<>>
  <2>1. docs' = saved.docs /\ index' = saved.index
    BY <1>5, RestoreEnds
  <2>2. call' = Idle /\ saved' = NoCheckpoint /\ marred' = saved.marred
    BY <1>5 DEF StepOK, Going, Finishes
  <2>3. ASSUME NEW i \in Ids PROVE Fit(i)'
    <3>1. SavedFit(i)
      BY <1>1 DEF AllFit
    <3> QED BY <1>1, <1>2, <2>1, <2>2, <3>1 DEF Fit, SavedFit
  <2>4. \A i \in Ids : SavedFit(i)'
    BY <2>2 DEF SavedFit
  <2> QED BY <1>3, <2>2, <2>3, <2>4 DEF AllFit, Form
<1>6. CASE StepOK /\ Rest # <<>>
  <2>1. Rest \in Seq(Writes)
    BY <1>1, Taken
  <2>2. /\ call' # Idle /\ call'.name = "restore" /\ call'.index = call.index
        /\ call'.todo = Rest /\ call'.phase = "doing"
    BY <1>1, <1>6, <2>1, GoesOn DEF StepOK
  <2>3. saved' = saved /\ marred' = marred
    BY <1>6 DEF StepOK, Finishes
  <2>4. Restores'
    BY <2>2 DEF Restores
  <2>5. \A i \in Ids : Fit(i)'
    BY <1>2, <1>6, <2>3, <2>4, RestoreFit
  <2>6. \A i \in Ids : SavedFit(i)'
    BY <1>1, <1>2, <2>3, SavedKept DEF AllFit
  <2> DEFINE R == {Rest[k] : k \in 1 .. Len(Rest)}
  <2>7. Left' = R
    BY <2>2 DEF Left
  <2>8. R \subseteq Left
    BY <1>1, LeftIs
  <2>9. /\ \A i \in saved.covers :
             /\ \/ docs'[i].source = saved.docs[i].source
                \/ Src(i, saved.docs[i].source) \in R
             /\ \/ docs'[i].config = saved.docs[i].config
                \/ Cfg(i, saved.docs[i].config) \in R
        /\ index' = saved.index \/ Idx \in R
        /\ \A i \in Ids \ saved.covers :
             docs'[i] = saved.docs[i] \/ (saved.docs[i] = Gone /\ Dir(i) \in R)
    BY <1>6, RestoreAdvances
  <2> HIDE DEF R
  <2>10. ASSUME NEW k \in 1 .. Len(Rest), NEW l \in 1 .. Len(Rest), k < l,
                Rest[k].file \in {"index", "directory"}
         PROVE  Rest[l].file = "directory"
    <3>1. (k + 1) \in 1 .. Len(call.todo) /\ (l + 1) \in 1 .. Len(call.todo) /\ k + 1 < l + 1
      BY <1>1, <2>10, LeftIs
    <3>2. call.todo[k + 1].file \in {"index", "directory"}
      BY <1>1, <2>10, LeftIs
    <3>3. call.todo[l + 1].file = "directory"
      BY <1>1, <3>1, <3>2 DEF RestoreForm
    <3> QED BY <1>1, <3>3, LeftIs
  <2>11. \A w \in R :
           \/ w = Idx
           \/ \E i \in saved.covers :
                w \in {Src(i, saved.docs[i].source), Cfg(i, saved.docs[i].config)}
           \/ \E i \in Ids \ saved.covers : saved.docs[i] = Gone /\ w = Dir(i)
    BY <1>1, <2>8 DEF RestoreForm
  <2>12. RestoreForm'
    <3>1. saved' # NoCheckpoint /\ call'.phase = "doing" /\ call'.index = saved'.index
      BY <1>1, <2>2, <2>3 DEF RestoreForm
    <3>2. \A k, l \in 1 .. Len(call'.todo) :
            k < l /\ call'.todo[k].file \in {"index", "directory"} =>
              call'.todo[l].file = "directory"
      BY <2>2, <2>10
    <3> QED BY <2>3, <2>7, <2>9, <2>11, <3>1, <3>2 DEF RestoreForm
  <2> QED BY <1>3, <2>2, <2>5, <2>6, <2>12 DEF AllFit, Form
<1> QED BY <1>4, <1>5, <1>6

-----------------------------------------------------------------------------
(* Calls enter the mutex.                                                  *)

LEMMA Entered ==
  ASSUME Types, NEW name \in Names, NEW id \in Ids \cup {NoProfile},
         NEW todo \in Seq(Writes), NEW ix \in Index, Enter(name, id, todo, ix)
  PROVE  /\ call = Idle /\ call' # Idle
         /\ call'.name = name /\ call'.id = id /\ call'.todo = todo /\ call'.index = ix
         /\ call'.before.docs = docs /\ call'.before.index = index /\ call'.phase = "doing"
<1> DEFINE r == [name |-> name, id |-> id, todo |-> todo, index |-> ix,
                 before |-> [docs |-> docs, index |-> index], phase |-> "doing"]
<1>1. todo \in Seq(Write)
  BY SeqMonotonic DEF Writes
<1>2. r \in Call
  BY <1>1 DEF Call, Types
<1>3. call' = r
  BY DEF Enter
<1>4. call' # Idle
  BY <1>2, <1>3, IdleAssumption
<1> QED BY <1>3, <1>4 DEF Enter

(* Entering changes no file.                                               *)
LEMMA EnteredFit ==
  ASSUME AllFit, call = Idle, UNCHANGED <<docs, index, upstream, saved, marred>>,
         \A i \in Ids : born'[i] = 0 => born[i] = 0,
         \A c \in Clients : job'[c] \in {job[c], NoJob}
  PROVE  AllFit'
<1>1. ~Restores
  BY DEF Restores
<1>2. \A i \in Ids : Fit(i)'
  BY <1>1, FitKept DEF AllFit
<1>3. \A i \in Ids : SavedFit(i)'
  BY SavedKept DEF AllFit
<1>4. \A c \in Clients : JobFit(c)'
  BY DEF AllFit, JobFit
<1> QED BY <1>2, <1>3, <1>4 DEF AllFit

LEMMA AloneAtFirst ==
  ASSUME Types, AllFit, UNCHANGED <<docs, index, upstream>>, NEW k \in Ids,
         call'.id = k, call'.before.docs = docs, call'.before.index = index,
         \A i \in Ids \ {k} : /\ i \in call'.index.named <=> i \in index.named
                              /\ call'.index.entry[i].etag = index.entry[i].etag
  PROVE  Alone'
<1>1. \A i \in Ids : docs[i].config <= upstream[i]
  BY DEF AllFit, Fit
<1> QED BY <1>1 DEF Alone

LEMMA AddEnters ==
  ASSUME StoreInv, NEW k \in Ids, Add(k)
  PROVE  AllFit' /\ Form'
<1>1. Types /\ AllFit /\ index \in Index
  BY DEF StoreInv, Types
<1>2. born[k] = 0 /\ UNCHANGED <<docs, index, upstream, job, saved, marred>>
  BY DEF Add
<1>3. born'[k] # 0 /\ \A i \in Ids : born'[i] = 0 => born[i] = 0
  <2>1. IsFiniteSet({i \in Ids : born[i] > 0})
    BY IdAssumption, FS_Subset, {i \in Ids : born[i] > 0} \subseteq Ids
  <2>2. Cardinality({i \in Ids : born[i] > 0}) \in Nat
    BY <2>1, FS_CardinalityType
  <2>3. born \in [Ids -> Nat]
    BY <1>1 DEF Types
  <2> QED BY <2>2, <2>3 DEF Add
<1>4. PICK v \in 1 .. upstream[k] :
        Enter("add", k, Put(k, Of(v)) \o SaveIndex,
              [index EXCEPT
                 !.named = @ \cup {k},
                 !.active = IF @ = NoProfile THEN k ELSE @,
                 !.entry[k] = [etag |-> IF k \in Remote THEN v ELSE 0, updated |-> 1]])
  BY DEF Add
<1>5. v \in Versions
  BY <1>1, BoundAssumption DEF Versions, Types
<1> DEFINE e == [etag |-> IF k \in Remote THEN v ELSE 0, updated |-> 1]
<1>6. e \in Entry /\ e.etag = IF k \in Remote THEN v ELSE 0
  BY <1>5, BoundAssumption DEF Entry, Versions
<1> HIDE DEF e
<1> DEFINE ix == [index EXCEPT
                    !.named = index.named \cup {k},
                    !.active = IF index.active = NoProfile THEN k ELSE index.active,
                    !.entry = [index.entry EXCEPT ![k] = e]]
           todo == Put(k, Of(v)) \o SaveIndex
<1>7. [index.entry EXCEPT ![k] = e] \in [Ids -> Entry]
  BY <1>1, <1>6 DEF Index
<1>8. ix \in Index /\ ix.named = index.named \cup {k}
      /\ ix.entry = [index.entry EXCEPT ![k] = e]
  BY <1>1, <1>7 DEF Index
<1>9. \A i \in Ids : ix.entry[i] = IF i = k THEN e ELSE index.entry[i]
  BY <1>1, <1>8 DEF Index
<1>10. Enter("add", k, todo, ix)
  BY <1>4 DEF e
<1>11. todo = <<Src(k, v), Cfg(k, v), Idx>> /\ todo \in Seq(Writes)
  BY <1>5, AddingIs
<1> HIDE DEF todo, ix
<1>12. /\ call = Idle /\ call' # Idle
       /\ call'.name = "add" /\ call'.id = k /\ call'.todo = todo /\ call'.index = ix
       /\ call'.before.docs = docs /\ call'.before.index = index /\ call'.phase = "doing"
  BY <1>1, <1>8, <1>10, <1>11, Entered DEF Names
<1>13. AllFit'
  <2>1. \A c \in Clients : job'[c] \in {job[c], NoJob}
    BY <1>2
  <2> QED BY <1>1, <1>2, <1>3, <1>12, <2>1, EnteredFit
<1>14. Alone'
  BY ZenonT(40), <1>1, <1>2, <1>8, <1>9, <1>12, AloneAtFirst
<1>15. AddForm'
  <2>1. /\ docs[k] = Gone /\ k \notin index.named
        /\ saved # NoCheckpoint => saved.docs[k] = Gone /\ k \notin saved.covers
    BY <1>1, <1>2 DEF AllFit, Fit, SavedFit
  <2>2. Installing(v)'
    BY <1>2, <1>11, <1>12 DEF Installing
  <2>3. call'.index.entry[k].etag = IF k \in Remote THEN v ELSE 0
    BY <1>6, <1>9, <1>12
  <2> QED BY <1>2, <1>3, <1>12, <2>1, <2>2, <2>3 DEF AddForm
<1> QED BY <1>12, <1>13, <1>14, <1>15 DEF Form

LEMMA KeepEnters ==
  ASSUME StoreInv, NEW k \in Ids, Use(k) \/ SaveSelections(k)
  PROVE  AllFit' /\ Form'
<1>1. Types /\ AllFit /\ index \in Index
  BY DEF StoreInv, Types
<1>2. k \in index.named /\ UNCHANGED <<docs, index, upstream, born, job, saved, marred>>
  BY DEF Use, SaveSelections
<1>3. PICK name \in {"use", "choose"}, ix \in Index :
        /\ Enter(name, k, SaveIndex, ix)
        /\ ix.named = index.named /\ ix.entry = index.entry
  <2>1. CASE Use(k)
    <3>1. /\ [index EXCEPT !.active = k] \in Index
          /\ [index EXCEPT !.active = k].named = index.named
          /\ [index EXCEPT !.active = k].entry = index.entry
      BY <1>1 DEF Index
    <3> QED BY <2>1, <3>1 DEF Use
  <2>2. CASE SaveSelections(k)
    <3>1. PICK chosen \in {index.chosen \cup {k}, index.chosen \ {k}} :
            Enter("choose", k, SaveIndex, [index EXCEPT !.chosen = chosen])
      BY <2>2 DEF SaveSelections
    <3>2. /\ [index EXCEPT !.chosen = chosen] \in Index
          /\ [index EXCEPT !.chosen = chosen].named = index.named
          /\ [index EXCEPT !.chosen = chosen].entry = index.entry
      BY <1>1 DEF Index
    <3> QED BY <3>1, <3>2
  <2> QED BY <2>1, <2>2
<1>4. /\ call = Idle /\ call' # Idle
      /\ call'.name = name /\ call'.id = k /\ call'.todo = <<Idx>> /\ call'.index = ix
      /\ call'.before.docs = docs /\ call'.before.index = index /\ call'.phase = "doing"
  <2>1. name \in Names /\ SaveIndex = <<Idx>> /\ SaveIndex \in Seq(Writes)
    BY IndexAlone DEF Names
  <2>2. k \in Ids \cup {NoProfile} /\ ix \in Index /\ Enter(name, k, SaveIndex, ix)
    BY <1>3
  <2> QED BY <1>1, <2>1, <2>2, Entered
<1>5. AllFit'
  BY <1>1, <1>2, <1>4, EnteredFit
<1>6. Alone'
  BY <1>1, <1>2, <1>3, <1>4, AloneAtFirst
<1>7. KeepForm'
  BY <1>2, <1>3, <1>4 DEF KeepForm
<1> QED BY <1>4, <1>5, <1>6, <1>7 DEF Form

LEMMA RemoveEnters ==
  ASSUME StoreInv, NEW k \in Ids, Remove(k)
  PROVE  AllFit' /\ Form'
<1>1. Types /\ AllFit /\ index \in Index
  BY DEF StoreInv, Types
<1>2. k \in index.named /\ UNCHANGED <<docs, index, upstream, born, job, saved, marred>>
      /\ (saved # NoCheckpoint => k \in saved.covers)
  BY DEF Remove, Covered
<1> DEFINE first == First(index.named \ {k})
<1>3. first \in Ids \cup {NoProfile}
  <2>1. born \in [Ids -> Nat] /\ index.named \ {k} \subseteq Ids
    BY <1>1 DEF Types, Index
  <2> QED BY <2>1, FirstIsOne DEF First
<1> HIDE DEF first
<1>4. NoEntry \in Entry /\ NoEntry.etag = 0
  BY BoundAssumption DEF NoEntry, Entry, Versions
<1> DEFINE ix == [index EXCEPT !.named = index.named \ {k},
                    !.chosen = index.chosen \ {k},
                    !.active = IF index.active = k THEN first ELSE index.active,
                    !.entry = [index.entry EXCEPT ![k] = NoEntry]]
<1>5. [index.entry EXCEPT ![k] = NoEntry] \in [Ids -> Entry]
  BY <1>1, <1>4 DEF Index
<1>6. ix \in Index /\ ix.named = index.named \ {k}
      /\ ix.entry = [index.entry EXCEPT ![k] = NoEntry]
  BY <1>1, <1>3, <1>5 DEF Index
<1>7. \A i \in Ids : ix.entry[i] = IF i = k THEN NoEntry ELSE index.entry[i]
  BY <1>1, <1>6 DEF Index
<1>8. ix = Without(k)
  BY DEF Without, Leaving, first
<1> HIDE DEF ix
<1>9. /\ call = Idle /\ call' # Idle
      /\ call'.name = "remove" /\ call'.id = k /\ call'.todo = <<Idx, Dir(k)>>
      /\ call'.index = ix
      /\ call'.before.docs = docs /\ call'.before.index = index /\ call'.phase = "doing"
  BY <1>1, <1>6, <1>8, RemovalIs, Entered DEF Names, Remove
<1>10. AllFit'
  BY <1>1, <1>2, <1>9, EnteredFit
<1>11. Alone'
  BY ZenonT(40), <1>1, <1>2, <1>6, <1>7, <1>9, AloneAtFirst
<1>12. born[k] # 0
  BY <1>1, <1>2 DEF AllFit, Fit
<1>13. RemoveForm'
  BY <1>2, <1>4, <1>6, <1>7, <1>9, <1>12 DEF RemoveForm
<1> QED BY <1>9, <1>10, <1>11, <1>13 DEF Form

LEMMA CommitEnters ==
  ASSUME StoreInv, NEW c \in Clients, CommitUpdate(c)
  PROVE  AllFit' /\ Form'
<1> DEFINE j == job[c]
<1>1. Types /\ AllFit /\ index \in Index
  BY DEF StoreInv, Types
<1>2. /\ j # NoJob /\ j.got # Pending /\ Unmoved(j) /\ Covered(j.id)
      /\ job' = [job EXCEPT ![c] = NoJob]
      /\ UNCHANGED <<docs, index, upstream, born, saved, marred>>
  BY DEF CommitUpdate
<1>3. j \in Job /\ NewEntry(j) \in Entry /\ JobFit(c)
  BY <1>1, <1>2, NewEntryTypes DEF Types, AllFit
<1>4. PICK k \in Ids : k = j.id
  BY <1>3 DEF Job
<1> DEFINE e == NewEntry(j)
           got == j.got
           name == IF j.got = NotModified THEN "touch" ELSE "refresh"
           todo == CommitWrites(j)
           ix == [index EXCEPT !.entry = [index.entry EXCEPT ![k] = e]]
<1>5. /\ k \in index.named /\ index.entry[k] = j.entry /\ docs[k] = j.doc
      /\ saved # NoCheckpoint => k \in saved.covers
  BY <1>2, <1>4 DEF Unmoved, Covered
<1>6. /\ Whole(docs[k]) /\ docs[k].config <= upstream[k] /\ index.entry[k].etag <= upstream[k]
      /\ got \in Versions => /\ got \in 1 .. upstream[k] /\ docs[k].config <= got
                             /\ k \in Remote => index.entry[k].etag < got
  BY <1>2, <1>3, <1>4, <1>5 DEF JobFit
<1>7. got = NotModified \/ (got \in Versions /\ got # NotModified)
  BY <1>2, <1>3, SentinelAssumption DEF Job, Versions
<1>8. e.etag = IF k \in Remote /\ got # NotModified THEN got ELSE index.entry[k].etag
  BY <1>4, <1>5 DEF NewEntry
<1>9. /\ todo \in Seq(Writes)
      /\ got = NotModified => todo = <<Idx>>
      /\ got # NotModified => \/ todo = <<Idx>> /\ docs[k] = Of(got)
                              \/ todo = <<Src(k, got), Cfg(k, got), Idx>>
  <2>1. todo \in Seq(Writes)
    BY <1>1, <1>2, CommitTypes
  <2>2. CASE got = NotModified \/ docs[k] = Of(got)
    <3>1. todo = <<Idx>>
      BY <1>4, <2>2, Lists DEF CommitWrites, ChangedDocuments
    <3> QED BY <2>1, <2>2, <3>1
  <2>3. CASE ~(got = NotModified \/ docs[k] = Of(got))
    <3>1. Put(k, Of(got)) \o SaveIndex
            = <<Src(k, Of(got).source), Cfg(k, Of(got).config), Idx>>
      BY Lists
    <3>2. Of(got).source = got /\ Of(got).config = got
      BY DEF Of
    <3> QED BY <1>4, <2>1, <2>3, <3>1, <3>2 DEF CommitWrites, ChangedDocuments
  <2> QED BY <2>2, <2>3
<1>10. Enter(name, k, todo, ix)
  BY <1>4 DEF CommitUpdate
<1>11. [index.entry EXCEPT ![k] = e] \in [Ids -> Entry]
  BY <1>1, <1>3 DEF Index
<1>12. ix \in Index /\ ix.named = index.named /\ ix.entry = [index.entry EXCEPT ![k] = e]
  BY <1>1, <1>11 DEF Index
<1>13. \A i \in Ids : ix.entry[i] = IF i = k THEN e ELSE index.entry[i]
  BY <1>1, <1>12 DEF Index
<1>14. name \in Names /\ name # "restore"
  BY DEF Names
<1>15. /\ got = NotModified => name = "touch"
       /\ got # NotModified => name = "refresh"
  OBVIOUS
<1>16. \A x \in Clients : job'[x] \in {job[x], NoJob}
  BY <1>1, <1>2 DEF Types
<1> HIDE DEF j, e, got, name, todo, ix
<1>17. /\ call = Idle /\ call' # Idle
       /\ call'.name = name /\ call'.id = k /\ call'.todo = todo /\ call'.index = ix
       /\ call'.before.docs = docs /\ call'.before.index = index /\ call'.phase = "doing"
  BY <1>1, <1>9, <1>10, <1>12, <1>14, Entered
<1>18. AllFit'
  BY <1>1, <1>2, <1>16, <1>17, EnteredFit
<1>19. Alone'
  BY <1>1, <1>2, <1>12, <1>13, <1>17, AloneAtFirst
<1>20. CASE got = NotModified
  <2>1. call'.index.entry[k].etag = index'.entry[k].etag
    BY <1>2, <1>8, <1>13, <1>17, <1>20
  <2>2. KeepForm'
    BY <1>2, <1>5, <1>9, <1>12, <1>17, <1>20, <2>1 DEF KeepForm
  <2> QED BY <1>15, <1>17, <1>18, <1>19, <1>20, <2>2 DEF Form
<1>21. CASE got \in Versions /\ got # NotModified
  <2>0. PICK v \in Versions : v = got
    BY <1>21
  <2>1. Installing(v)'
    <3>1. \/ call'.todo = <<Idx>> /\ docs'[k] = Of(v)
          \/ call'.todo = <<Src(k, v), Cfg(k, v), Idx>> /\ docs'[k] = call'.before.docs[k]
      BY <1>2, <1>9, <1>17, <1>21, <2>0
    <3> QED BY <1>17, <3>1 DEF Installing
  <2>2. v \in 1 .. upstream'[k] /\ docs'[k].config <= v
    BY <1>2, <1>6, <1>21, <2>0
  <2>3. /\ call'.index.entry[k].etag <= upstream'[k]
        /\ k \in Remote => call'.index.entry[k].etag = v /\ index'.entry[k].etag < v
    <3>1. upstream[k] \in Nat /\ v <= upstream[k]
      BY <1>1, <1>6, <1>21, <2>0, BoundAssumption DEF Types
    <3> QED BY <1>2, <1>6, <1>8, <1>13, <1>17, <1>21, <2>0, <3>1
  <2>4. RefreshForm'
    <3>1. /\ k \in index'.named /\ Whole(call'.before.docs[k])
          /\ saved' # NoCheckpoint => k \in saved'.covers
          /\ k \in call'.index.named /\ index' = call'.before.index
          /\ call'.before.docs[k].config <= v
      BY <1>2, <1>5, <1>6, <1>12, <1>17, <2>2
    <3> QED BY <1>17, <2>1, <2>2, <2>3, <3>1 DEF RefreshForm
  <2> QED BY <1>15, <1>17, <1>18, <1>19, <1>21, <2>4 DEF Form
<1> QED BY <1>7, <1>20, <1>21

(* A restore has everything still to do.                                   *)
LEMMA RestoreEnters ==
  ASSUME StoreInv, RestoreCheckpoint
  PROVE  AllFit' /\ Form'
<1>1. Types /\ AllFit /\ saved # NoCheckpoint /\ saved \in Checkpoint
      /\ UNCHANGED <<docs, index, upstream, born, job, saved, marred>>
  BY DEF StoreInv, RestoreCheckpoint, Types
<1>2. PICK back \in Orders(saved.covers), away \in Orders(Added) :
        Enter("restore", NoProfile, Restoring(back, away), saved.index)
  BY DEF RestoreCheckpoint
<1> DEFINE T == Restoring(back, away)
           n == Cardinality(saved.covers)
           m == Cardinality(Added)
<1>3. /\ n \in Nat /\ m \in Nat
      /\ T \in Seq(Writes) /\ Len(T) = 2 * n + 1 + m
      /\ \A k \in 1 .. 2 * n :
           /\ (k + 1) \div 2 \in 1 .. n
           /\ LET i == back[(k + 1) \div 2] IN
              T[k] = IF k % 2 = 1 THEN Src(i, saved.docs[i].source)
                                  ELSE Cfg(i, saved.docs[i].config)
      /\ T[2 * n + 1] = Idx
      /\ \A k \in 1 .. m : T[2 * n + 1 + k] = Dir(away[k])
  BY <1>1, RestoringIs
<1>4. /\ back \in [1 .. n -> saved.covers] /\ away \in [1 .. m -> Added]
      /\ \A i \in saved.covers : \E k \in 1 .. n : back[k] = i
      /\ \A i \in Added : \E k \in 1 .. m : away[k] = i
  BY DEF Orders
<1> HIDE DEF T, n, m
<1>pieces. ASSUME NEW k \in 1 .. 2 * n
           PROVE  \E i \in saved.covers :
                    T[k] \in {Src(i, saved.docs[i].source), Cfg(i, saved.docs[i].config)}
  <2>1. (k + 1) \div 2 \in 1 .. n
    BY <1>3
  <2>2. PICK i \in saved.covers : i = back[(k + 1) \div 2]
    BY <1>4, <2>1
  <2>3. T[k] \in {Src(i, saved.docs[i].source), Cfg(i, saved.docs[i].config)}
    BY <1>3, <2>2
  <2> QED BY <2>3
<1>5. /\ call = Idle /\ call' # Idle /\ call'.name = "restore" /\ call'.todo = T
      /\ call'.index = saved.index /\ call'.phase = "doing"
  <2>1. "restore" \in Names /\ NoProfile \in Ids \cup {NoProfile} /\ saved.index \in Index
    BY <1>1 DEF Names, Checkpoint
  <2>2. Enter("restore", NoProfile, T, saved.index)
    BY <1>2 DEF T
  <2>3. T \in Seq(Writes) /\ Types
    BY <1>1, <1>3
  <2> QED BY <2>1, <2>2, <2>3, Entered
<1>6. AllFit'
  BY <1>1, <1>5, EnteredFit
<1> DEFINE L == {T[k] : k \in 1 .. Len(T)}
<1>7. Left' = L
  BY <1>5 DEF Left
<1>8. Len(T) \in Nat /\ 1 .. 2 * n \subseteq 1 .. Len(T) /\ (2 * n + 1) \in 1 .. Len(T)
      /\ \A k \in 1 .. m : (2 * n + 1 + k) \in 1 .. Len(T)
  BY <1>3
<1>9. ASSUME NEW i \in saved.covers
      PROVE  Src(i, saved.docs[i].source) \in L /\ Cfg(i, saved.docs[i].config) \in L
  <2>1. PICK p \in 1 .. n : back[p] = i
    BY <1>4
  <2>2. /\ (2 * p) \in 1 .. 2 * n /\ (2 * p - 1) \in 1 .. 2 * n
        /\ (2 * p + 1) \div 2 = p /\ (2 * p - 1 + 1) \div 2 = p
        /\ (2 * p) % 2 = 0 /\ (2 * p - 1) % 2 = 1
    BY <1>3, Half
  <2>3. T[2 * p - 1] = Src(i, saved.docs[i].source)
    BY <1>3, <2>1, <2>2
  <2>4. T[2 * p] = Cfg(i, saved.docs[i].config)
    BY <1>3, <2>1, <2>2
  <2> QED BY <1>8, <2>2, <2>3, <2>4
<1>10. Idx \in L
  BY <1>3, <1>8
<1>11. ASSUME NEW i \in Ids \ saved.covers
       PROVE  docs[i] = saved.docs[i] \/ (saved.docs[i] = Gone /\ Dir(i) \in L)
  <2>1. saved.docs[i] # Gone => docs[i] = saved.docs[i]
    BY <1>1, <1>11 DEF AllFit, Fit
  <2>2. CASE saved.docs[i] = Gone /\ docs[i] # Gone
    <3>1. i \in Added
      BY <2>2 DEF Added
    <3>2. PICK k \in 1 .. m : away[k] = i
      BY <1>4, <3>1
    <3> QED BY <1>3, <1>8, <2>2, <3>2
  <2> QED BY <2>1, <2>2
<1>12. \A i \in Added : i \in Ids \ saved.covers /\ saved.docs[i] = Gone
  <2>1. \A i \in saved.covers : i \in Ids /\ Whole(saved.docs[i])
    BY <1>1 DEF AllFit, SavedFit, Checkpoint
  <2> QED BY <2>1 DEF Added, Whole, Gone
<1>13. ASSUME NEW k \in 1 .. Len(T)
       PROVE  \/ k \in 1 .. 2 * n /\ T[k].file \in {"source", "config"}
              \/ k = 2 * n + 1 /\ T[k].file = "index"
              \/ k > 2 * n + 1 /\ T[k].file = "directory" /\ (k - (2 * n + 1)) \in 1 .. m
  <2>1. CASE k \in 1 .. 2 * n
    <3>1. T[k].file \in {"source", "config"}
      BY <1>pieces, <2>1 DEF Src, Cfg
    <3> QED BY <2>1, <3>1
  <2>2. CASE k = 2 * n + 1
    BY <1>3, <2>2 DEF Idx
  <2>3. CASE k > 2 * n + 1
    <3>1. (k - (2 * n + 1)) \in 1 .. m /\ k = 2 * n + 1 + (k - (2 * n + 1))
      <4>1. n \in Nat /\ m \in Nat /\ Len(T) = 2 * n + 1 + m
        BY <1>3
      <4> QED BY <2>3, <4>1
    <3>2. T[k] = Dir(away[k - (2 * n + 1)])
      BY <1>3, <3>1
    <3> QED BY <2>3, <3>1, <3>2 DEF Dir
  <2> QED BY <1>3, <2>1, <2>2, <2>3
<1>14. ASSUME NEW w \in L
       PROVE  \/ w = Idx
              \/ \E i \in saved.covers :
                   w \in {Src(i, saved.docs[i].source), Cfg(i, saved.docs[i].config)}
              \/ \E i \in Ids \ saved.covers : saved.docs[i] = Gone /\ w = Dir(i)
  <2>1. PICK k \in 1 .. Len(T) : w = T[k]
    OBVIOUS
  <2>2. CASE k \in 1 .. 2 * n
    BY <1>pieces, <2>1, <2>2
  <2>3. CASE k = 2 * n + 1
    BY <1>3, <2>1, <2>3
  <2>4. CASE (k - (2 * n + 1)) \in 1 .. m
    <3> DEFINE q == k - (2 * n + 1)
    <3>1. q \in 1 .. m /\ k = 2 * n + 1 + q
      BY <1>3, <2>4
    <3> HIDE DEF q
    <3>2. w = Dir(away[q]) /\ away[q] \in Added
      BY <1>3, <1>4, <2>1, <3>1
    <3> QED BY <1>12, <3>2
  <2> QED BY <1>13, <2>2, <2>3, <2>4
<1>15. ASSUME NEW k \in 1 .. Len(T), NEW l \in 1 .. Len(T), k < l,
              T[k].file \in {"index", "directory"}
       PROVE  T[l].file = "directory"
  <2>1. k \in Nat /\ l \in Nat /\ 2 * n + 1 \in Nat
    BY <1>3, <1>8
  <2>2. k >= 2 * n + 1
    BY <1>13, <1>15, <2>1
  <2>3. l > 2 * n + 1
    BY <1>15, <2>1, <2>2
  <2> QED BY <1>3, <1>13, <2>1, <2>3
<1> HIDE DEF L
<1>16. RestoreForm'
  <2>1. \A k, l \in 1 .. Len(call'.todo) :
          k < l /\ call'.todo[k].file \in {"index", "directory"} =>
            call'.todo[l].file = "directory"
    BY <1>5, <1>15
  <2> QED BY <1>1, <1>5, <1>7, <1>9, <1>10, <1>11, <1>14, <2>1 DEF RestoreForm
<1> QED BY <1>5, <1>6, <1>16 DEF Form

-----------------------------------------------------------------------------
(* The steps of the origin, of the clients and of the operation, and the   *)
(* death of the process.                                                   *)

LEMMA CheckpointFit ==
  ASSUME StoreInv, NEW covers \in SUBSET index.named, TakeCheckpoint(covers)
  PROVE  AllFit' /\ Form'
<1>1. Types /\ AllFit /\ call = Idle
  BY DEF StoreInv, TakeCheckpoint
<1>2. /\ UNCHANGED <<docs, index, upstream, born, job, call, marred>>
      /\ saved' = [docs |-> docs, index |-> index, covers |-> covers, marred |-> marred]
      /\ \A i \in covers : Whole(docs[i])
      /\ \A i \in index.named : docs[i] # Gone
  BY DEF TakeCheckpoint
<1>3. /\ saved'.docs = docs /\ saved'.index = index /\ saved'.covers = covers
      /\ saved'.marred = marred
  BY <1>2
<1>4. ASSUME NEW i \in Ids PROVE Fit(i)' /\ SavedFit(i)'
  <2>1. Fit(i) /\ ~Restores
    BY <1>1 DEF AllFit, Restores
  <2> QED BY <1>2, <1>3, <2>1 DEF Fit, SavedFit
<1>5. \A c \in Clients : JobFit(c)'
  BY <1>1, <1>2 DEF AllFit, JobFit
<1> QED BY <1>1, <1>2, <1>4, <1>5 DEF AllFit, Form

LEMMA DropFit ==
  ASSUME StoreInv, DropCheckpoint
  PROVE  AllFit' /\ Form'
<1>1. AllFit /\ call = Idle /\ ~Restores
  BY DEF StoreInv, DropCheckpoint, Restores
<1>2. UNCHANGED <<docs, index, upstream, born, job, call, marred>> /\ saved' = NoCheckpoint
  BY DEF DropCheckpoint
<1>3. \A i \in Ids : Fit(i)' /\ SavedFit(i)'
  BY <1>1, <1>2, FitKept, SavedKept DEF AllFit
<1>4. \A c \in Clients : JobFit(c)'
  BY <1>1, <1>2 DEF AllFit, JobFit
<1> QED BY <1>1, <1>2, <1>3, <1>4 DEF AllFit, Form

(* A new version at the origin confirms no ETag and outdates no document.  *)
LEMMA PublishFit ==
  ASSUME StoreInv, NEW k \in Ids, Publish(k)
  PROVE  AllFit' /\ Form'
<1>1. Types /\ AllFit /\ Form
  BY DEF StoreInv
<1>2. UNCHANGED <<docs, index, born, job, call, saved, marred>>
      /\ upstream' = [upstream EXCEPT ![k] = @ + 1]
  BY DEF Publish
<1>3. /\ upstream'[k] = upstream[k] + 1
      /\ \A i \in Ids \ {k} : upstream'[i] = upstream[i]
      /\ \A i \in Ids : upstream[i] \in Nat /\ upstream'[i] \in Nat
                        /\ upstream[i] <= upstream'[i]
  BY <1>1, <1>2, BoundAssumption DEF Types
<1>4. ASSUME NEW i \in Ids PROVE Fit(i)' /\ SavedFit(i)'
  <2>1. Fit(i) /\ SavedFit(i)
    BY <1>1 DEF AllFit
  <2>2. CASE i # k
    <3>1. Restores' = Restores
      BY <1>2 DEF Restores
    <3> QED BY <1>2, <1>3, <2>1, <2>2, <3>1 DEF Fit, SavedFit
  <2>3. CASE i = k
    <3>1. /\ docs[k].config \in Nat /\ index.entry[k].etag \in Nat
          /\ saved # NoCheckpoint => /\ saved.docs[k].config \in Nat
                                     /\ saved.index.entry[k].etag \in Nat
      BY <1>1, Shaped, BoundAssumption DEF Doc, Versions
    <3>2. /\ docs'[k].config <= upstream'[k] /\ index'.entry[k].etag <= upstream'[k]
          /\ index'.entry[k].etag # upstream'[k]
      BY <1>2, <1>3, <2>1, <2>3, <3>1 DEF Fit
    <3>3. saved' # NoCheckpoint =>
            /\ saved'.docs[k].config <= upstream'[k]
            /\ saved'.index.entry[k].etag <= upstream'[k]
            /\ saved'.index.entry[k].etag # upstream'[k]
      BY <1>2, <1>3, <2>1, <2>3, <3>1 DEF SavedFit
    <3>4. Fit(k)'
      BY <1>2, <2>1, <2>3, <3>2 DEF Fit
    <3>5. SavedFit(k)'
      BY <1>2, <2>1, <2>3, <3>3 DEF SavedFit
    <3> QED BY <2>3, <3>4, <3>5
  <2> QED BY <2>2, <2>3
<1>5. ASSUME NEW c \in Clients PROVE JobFit(c)'
  <2> DEFINE j == job[c]
  <2>1. CASE j # NoJob
    <3>1. j \in Job /\ JobFit(c)
      BY <1>1, <2>1 DEF Types, AllFit
    <3>2. j.id \in Ids /\ j.doc.config \in Nat /\ j.entry.etag \in Nat
      BY <3>1, BoundAssumption DEF Job, Doc, Entry, Versions
    <3>3. upstream[j.id] \in Nat /\ upstream'[j.id] \in Nat
          /\ upstream[j.id] <= upstream'[j.id]
      BY <1>3, <3>2
    <3> QED BY <1>2, <2>1, <3>1, <3>2, <3>3 DEF JobFit
  <2>2. CASE j = NoJob
    BY <1>2, <2>2 DEF JobFit
  <2> QED BY <2>1, <2>2
<1>6. Form'
  <2> SUFFICES ASSUME call # Idle PROVE Form'
    BY <1>2 DEF Form
  <2>1. call.name # "restore" => call.id \in Ids
    BY <1>1 DEF Types, CallTypes
  <2>2. Alone => Alone'
    <3>1. \A i \in Ids : call.before.docs[i].config \in Nat
      BY <1>1, BoundAssumption DEF Types, CallTypes, Call, Doc, Versions
    <3> QED BY <1>2, <1>3, <3>1 DEF Alone
  <2>3. call.id \in Ids => \A v \in 1 .. upstream[call.id] : v \in 1 .. upstream'[call.id]
    BY <1>3
  <2>4. \A v : Installing(v) => Installing(v)'
    BY <1>2 DEF Installing
  <2>5. AddForm /\ call.id \in Ids => AddForm'
    BY <1>2, <2>3, <2>4 DEF AddForm
  <2>6. KeepForm => KeepForm'
    BY <1>2 DEF KeepForm
  <2>7. RemoveForm => RemoveForm'
    BY SMTT(40), <1>2 DEF RemoveForm
  <2>8. RefreshForm /\ call.id \in Ids => RefreshForm'
    <3> SUFFICES ASSUME RefreshForm, call.id \in Ids PROVE RefreshForm'
      OBVIOUS
    <3>1. PICK i \in Ids : i = call.id
      OBVIOUS
    <3>2. /\ index.entry[i].etag \in Nat /\ call.index.entry[i].etag \in Nat
          /\ upstream[i] \in Nat /\ upstream'[i] \in Nat /\ upstream[i] <= upstream'[i]
      BY <1>1, <1>3, Shaped, BoundAssumption DEF Versions
    <3>3. call.index.entry[i].etag <= upstream[i] => call.index.entry[i].etag <= upstream'[i]
      BY <3>2
    <3>4. index.entry[i].etag < upstream[i] => index.entry[i].etag < upstream'[i]
      BY <3>2
    <3> QED BY <1>2, <2>3, <2>4, <3>1, <3>3, <3>4 DEF RefreshForm
  <2>9. RestoreForm => RestoreForm'
    BY <1>2 DEF RestoreForm, Left
  <2> QED BY <1>1, <1>2, <2>1, <2>2, <2>5, <2>6, <2>7, <2>8, <2>9 DEF Form
<1> QED BY <1>4, <1>5, <1>6 DEF AllFit

(* The steps that change only what a client prepares.                      *)
LEMMA JobsFit ==
  ASSUME StoreInv, NEW c \in Clients,
         \/ \E k \in Ids : ReadBaseline(c, k)
         \/ Download(c) \/ Abandon(c) \/ RefuseStale(c)
  PROVE  AllFit' /\ Form'
<1>1. Types /\ AllFit /\ Form
  BY DEF StoreInv
<1>2. UNCHANGED <<docs, index, upstream, born, call, saved, marred>>
  BY DEF ReadBaseline, Download, Abandon, RefuseStale
<1>3. \A i \in Ids : Fit(i)' /\ SavedFit(i)'
  <2>1. Restores' = Restores
    BY SMTT(40), <1>2 DEF Restores
  <2> QED BY <1>1, <1>2, <2>1 DEF AllFit, Fit, SavedFit
<1>4. Form'
  BY <1>1, <1>2
     DEF Form, Alone, AddForm, KeepForm, RemoveForm, RefreshForm, RestoreForm, Installing, Left
<1>5. ASSUME NEW x \in Clients, job'[x] \in {job[x], NoJob} PROVE JobFit(x)'
  BY <1>1, <1>2, <1>5 DEF AllFit, JobFit
<1>6. \A x \in Clients \ {c} : job'[x] = job[x]
  BY <1>1 DEF ReadBaseline, Download, Abandon, RefuseStale, Types
<1>7. JobFit(c)'
  <2>1. ASSUME NEW k \in Ids, ReadBaseline(c, k) PROVE JobFit(c)'
    <3> DEFINE r == [id |-> k, entry |-> index.entry[k], doc |-> docs[k],
                     got |-> Pending, at |-> 0]
    <3>1. job'[c] = r /\ Whole(docs[k])
      BY <1>1, <2>1 DEF ReadBaseline, Types
    <3>2. /\ r.id = k /\ r.entry = index.entry[k] /\ r.doc = docs[k] /\ r.got = Pending
          /\ Pending \notin Versions
      BY SentinelAssumption DEF Versions
    <3>3. docs[k].config <= upstream[k] /\ index.entry[k].etag <= upstream[k]
      BY <1>1 DEF AllFit, Fit
    <3> HIDE DEF r
    <3> QED BY <1>2, <3>1, <3>2, <3>3 DEF JobFit
  <2>2. CASE Download(c)
    <3> DEFINE j == job[c]
               known == j.id \in Remote /\ j.entry.etag = upstream[j.id]
               got == IF known THEN NotModified ELSE upstream[j.id]
               at == j.entry.updated + 1
    <3>1. j # NoJob /\ j \in Job /\ JobFit(c)
      BY <1>1, <2>2 DEF Download, Types, AllFit
    <3>2. job'[c] = [j EXCEPT !.got = got, !.at = at]
      BY <1>1, <2>2 DEF Download, Types
    <3>3. /\ job'[c].id = j.id /\ job'[c].entry = j.entry /\ job'[c].doc = j.doc
          /\ job'[c].got = got
      <4> HIDE DEF got, at, j
      <4> QED BY <3>1, <3>2 DEF Job
    <3>4. /\ Whole(j.doc) /\ j.doc.config <= upstream[j.id] /\ j.entry.etag <= upstream[j.id]
          /\ j.id \in Ids /\ j.entry.etag \in Nat
      BY <3>1, BoundAssumption DEF JobFit, Job, Entry, Versions
    <3>5. upstream[j.id] \in 1 .. MaxVersion /\ upstream[j.id] \in 1 .. upstream[j.id]
      BY <1>1, <3>4, BoundAssumption DEF Types
    <3>6. got \in Versions =>
            /\ got \in 1 .. upstream[j.id] /\ j.doc.config <= got
            /\ j.id \in Remote => j.entry.etag < got
      <4>1. NotModified \notin Versions
        BY SentinelAssumption DEF Versions
      <4>2. CASE known
        BY <4>1, <4>2
      <4>3. CASE ~known
        <5>1. got = upstream[j.id]
          BY <4>3
        <5>2. j.id \in Remote => j.entry.etag < upstream[j.id]
          BY <3>4, <3>5, <4>3, BoundAssumption
        <5> QED BY <3>4, <3>5, <5>1, <5>2
      <4> QED BY <4>2, <4>3
    <3> HIDE DEF got, at, j
    <3> QED BY <1>2, <3>3, <3>4, <3>6 DEF JobFit
  <2>3. CASE Abandon(c) \/ RefuseStale(c)
    <3>1. job'[c] = NoJob
      BY <1>1, <2>3 DEF Abandon, RefuseStale, Types
    <3> QED BY <1>5, <3>1
  <2> QED BY <2>1, <2>2, <2>3
<1> QED BY <1>3, <1>4, <1>5, <1>6, <1>7 DEF AllFit

LEMMA KillFit ==
  ASSUME StoreInv, Kill
  PROVE  AllFit' /\ Form'
<1>1. Types /\ AllFit
  BY DEF StoreInv
<1>2. /\ UNCHANGED <<docs, index, upstream, born>> /\ call' = Idle /\ saved' = NoCheckpoint
      /\ job' = [c \in Clients |-> NoJob]
      /\ marred' = IF Restores THEN marred \cup saved.covers ELSE marred
  BY DEF Kill, Restores
<1>3. \A i \in Ids : Fit(i)' /\ SavedFit(i)'
  BY <1>1, <1>2, FitKept, SavedKept DEF AllFit
<1>4. \A c \in Clients : JobFit(c)'
  BY <1>2 DEF JobFit
<1> QED BY <1>2, <1>3, <1>4 DEF AllFit, Form

LEMMA StoreStarts == Init => StoreInv
<1> SUFFICES ASSUME Init PROVE StoreInv
  OBVIOUS
<1>1. Types
  BY TypesStart
<1>2. \A i \in Ids : /\ docs[i] = Gone /\ upstream[i] = 1 /\ index.entry[i] = NoEntry
                     /\ index.named = {} /\ saved = NoCheckpoint
  BY DEF Init
<1>3. \A i \in Ids : Fit(i) /\ SavedFit(i)
  BY <1>2 DEF Fit, SavedFit, Gone, NoEntry
<1>4. (\A c \in Clients : JobFit(c)) /\ Form
  BY DEF Init, JobFit, Form
<1> QED BY <1>1, <1>3, <1>4 DEF StoreInv, AllFit

LEMMA StoreKept == StoreInv /\ [Next]_vars => StoreInv'
<1> SUFFICES ASSUME StoreInv, [Next]_vars PROVE StoreInv'
  OBVIOUS
<1>1. Types' /\ Types
  BY TypesKept DEF StoreInv
<1>2. SUFFICES AllFit' /\ Form'
  BY <1>1 DEF StoreInv
<1>3. CASE \E id \in Ids : \/ Add(id) \/ Use(id) \/ SaveSelections(id) \/ Remove(id)
                           \/ Publish(id) \/ \E c \in Clients : ReadBaseline(c, id)
  BY <1>3, AddEnters, KeepEnters, RemoveEnters, PublishFit, JobsFit
<1>4. CASE \E c \in Clients : Download(c) \/ Abandon(c) \/ CommitUpdate(c) \/ RefuseStale(c)
  BY <1>4, CommitEnters, JobsFit
<1>5. CASE \/ \E covers \in SUBSET index.named : TakeCheckpoint(covers)
           \/ DropCheckpoint \/ RestoreCheckpoint \/ Kill
  BY <1>5, CheckpointFit, DropFit, RestoreEnters, KillFit
<1>6. CASE StepOK \/ StepFails
  <2>1. call # Idle /\ call.name \in Names
    BY <1>1, <1>6 DEF StepOK, StepFails, Types, CallTypes, Call
  <2>2. CASE call.name = "add"
    BY <1>6, <2>1, <2>2, AddGoes, AddFails
  <2>3. CASE call.name \in {"use", "choose", "touch"}
    BY <1>6, <2>1, <2>3, KeepEnds
  <2>4. CASE call.name = "remove"
    BY <1>6, <2>1, <2>4, RemoveGoes
  <2>5. CASE call.name = "refresh"
    BY <1>6, <2>1, <2>5, RefreshGoes, RefreshFails
  <2>6. CASE call.name = "restore"
    BY <1>6, <2>1, <2>6, RestoreGoes
  <2> QED BY <2>1, <2>2, <2>3, <2>4, <2>5, <2>6 DEF Names
<1>7. CASE UndoOK \/ UndoFails
  <2>1. call # Idle /\ call.name \in Names /\ call.phase # "doing"
    BY <1>1, <1>7 DEF UndoOK, UndoFails, Types, CallTypes, Call
  <2>2. call.name \in {"add", "refresh"}
    BY <2>1 DEF StoreInv, Form, KeepForm, RemoveForm, RestoreForm, Names
  <2> QED BY <1>7, <2>1, <2>2, AddUndone, RefreshUndone
<1>8. CASE UNCHANGED vars
  <2>1. UNCHANGED <<docs, index, upstream, born, job, call, saved, marred>>
    BY <1>8 DEF vars
  <2>2. Restores' = Restores
    BY <2>1 DEF Restores
  <2>3. AllFit'
    BY SMTT(40), <2>1, <2>2 DEF StoreInv, AllFit, Fit, SavedFit, JobFit
  <2>4. Form'
    BY <2>1 DEF StoreInv, Form, Alone, AddForm, KeepForm, RemoveForm, RefreshForm,
                RestoreForm, Installing, Left
  <2> QED BY <2>3, <2>4
<1> QED BY <1>3, <1>4, <1>5, <1>6, <1>7, <1>8 DEF Next

LEMMA StoreAlways == Spec => []StoreInv
<1> QED BY StoreStarts, StoreKept, PTL DEF Spec

-----------------------------------------------------------------------------
(* What the properties say of one state and of one step.                   *)

LEMMA Forward ==
  ASSUME StoreInv, call # Idle, call.name # "restore", StepOK \/ StepFails
  PROVE  \A i \in Ids : docs'[i].config = 0 \/ docs[i].config <= docs'[i].config
<1>1. Types /\ AllFit /\ Form /\ Alone /\ call.phase = "doing" /\ call.id \in Ids
      /\ call.name \in Names
  BY DEF StoreInv, Form, StepOK, StepFails, Types, CallTypes, Call
<1>2. PICK k \in Ids : call.id = k
  BY <1>1
<1>3. \A i \in Ids : docs[i].config \in Nat /\ call.before.docs[i].config \in Nat
  BY <1>1, Shaped, BoundAssumption DEF Doc, Versions
<1>4. CASE call.name \in {"add", "refresh"}
  <2>1. PICK v \in Nat : call.before.docs[k].config <= v /\ Installing(v)
    <3>1. upstream[k] \in Nat
      BY <1>1, Shaped, BoundAssumption
    <3>2. CASE call.name = "add"
      BY <1>1, <1>2, <3>1, <3>2 DEF Form, AddForm, Gone
    <3>3. CASE call.name = "refresh"
      BY <1>1, <1>2, <3>1, <3>3 DEF Form, RefreshForm
    <3> QED BY <1>4, <3>2, <3>3
  <2>2. Of(v).config = v /\ [source |-> v, config |-> docs[k].config].config = docs[k].config
        /\ [source |-> v, config |-> call.before.docs[k].config].config
             = call.before.docs[k].config
    BY DEF Of
  <2>3. CASE StepOK
    <3>1. \A i \in Ids \ {k} : docs'[i] = docs[i]
      BY <1>1, <1>2, <2>1, <2>3, InstallGoes
    <3>2. \/ /\ docs'[k] = [source |-> v, config |-> call.before.docs[k].config]
             /\ docs[k] = call.before.docs[k]
          \/ /\ docs'[k] = Of(v)
             /\ docs[k] = [source |-> v, config |-> call.before.docs[k].config]
          \/ docs' = docs
      BY <1>1, <1>2, <2>1, <2>3, InstallGoes
    <3>3. docs[k].config <= docs'[k].config
      BY <1>3, <2>1, <2>2, <3>2
    <3> QED BY <1>3, <3>1, <3>3
  <2>4. CASE StepFails
    <3>1. \A i \in Ids \ {k} : docs'[i] = docs[i]
      BY <1>1, <1>2, <2>1, <2>4, InstallFails
    <3>2. \/ docs'[k] = docs[k]
          \/ docs'[k] = [source |-> v, config |-> docs[k].config]
          \/ /\ docs'[k] = Of(v)
             /\ docs[k] = [source |-> v, config |-> call.before.docs[k].config]
      BY <1>1, <1>2, <2>1, <2>4, InstallFails
    <3>3. docs[k].config <= docs'[k].config
      BY <1>3, <2>1, <2>2, <3>2
    <3> QED BY <1>3, <3>1, <3>3
  <2> QED BY <2>3, <2>4
<1>5. CASE call.name \in {"use", "choose", "touch", "remove"}
  <2>1. Next1 = Idx \/ Next1 = Dir(k)
    <3>1. call.todo \in {<<Idx>>, <<Idx, Dir(k)>>, <<Dir(k)>>}
      BY <1>1, <1>2, <1>5 DEF Form, KeepForm, RemoveForm
    <3> QED BY <3>1, Heads DEF Next1
  <2>2. CASE Next1 = Idx
    <3>1. docs' = docs
      BY <2>2, IdxDoes DEF StepOK, StepFails, Failed
    <3> QED BY <1>3, <3>1
  <2>3. CASE Next1 = Dir(k)
    <3>1. PICK d : docs' = [docs EXCEPT ![k] = d] /\ d.config \in {0, docs[k].config}
      <4>1. CASE docs' = Written(Next1)
        BY <1>1, <2>3, <4>1, DirDoes DEF Gone
      <4>2. CASE docs' \in Leftovers(Next1)
        <5>1. PICK s \in {0, docs[k].source}, f \in {0, docs[k].config} :
                docs' = [docs EXCEPT ![k] = [source |-> s, config |-> f]]
          BY <1>1, <2>3, <4>2, DirDoes
        <5>2. [source |-> s, config |-> f].config = f
          OBVIOUS
        <5> QED BY <5>1, <5>2
      <4> QED BY <4>1, <4>2 DEF StepOK, StepFails, Failed
    <3>2. docs'[k] = d /\ \A i \in Ids \ {k} : docs'[i] = docs[i]
      BY <1>1, <3>1, StaysHome
    <3> QED BY <1>3, <3>1, <3>2
  <2> QED BY <2>1, <2>2, <2>3
<1> QED BY <1>1, <1>4, <1>5 DEF Names

(* Steps that write no document.                                           *)
LEMMA DocumentsStay ==
  ASSUME [Next]_vars, ~StepOK, ~StepFails, ~UndoOK, ~UndoFails
  PROVE  docs' = docs
BY DEF Next, vars, Add, Use, SaveSelections, Remove, Publish, ReadBaseline, Download,
       Abandon, CommitUpdate, RefuseStale, TakeCheckpoint, DropCheckpoint,
       RestoreCheckpoint, Kill

(* A commit that failed, or finished its undo, without late errors.        *)
LEMMA TakenBack ==
  ASSUME StoreInv, "late" \notin Faults, call # Idle, call.name = "refresh",
         call.phase # "dirty", StepFails \/ UndoOK, call' = Idle
  PROVE  docs' = call.before.docs /\ index' = call.before.index
<1>1. call.id \in Ids /\ Types
  BY DEF StoreInv, Types, CallTypes
<1>2. PICK k \in Ids : call.id = k
  BY <1>1
<1>3. /\ Types /\ AllFit /\ Alone /\ RefreshForm /\ ~Restores
      /\ call.before.docs[k] \in Doc /\ docs[k] \in Doc
      /\ upstream[k] \in 1 .. MaxVersion
  BY <1>2, RefreshIs
<1> DEFINE old == call.before.docs[k]
<1>4. docs' \in [Ids -> Doc] /\ call.before.docs \in [Ids -> Doc]
  <2>1. Types'
    BY <1>1, TypesKept DEF Next
  <2> QED BY <1>1, <2>1 DEF Types, CallTypes, Call
<1>5. SUFFICES /\ \A i \in Ids \ {k} : docs'[i] = docs[i]
               /\ docs'[k] = old /\ index' = call.before.index
  <2>1. \A i \in Ids \ {k} : docs[i] = call.before.docs[i]
    BY <1>2, <1>3 DEF Alone
  <2> QED BY <1>4, <2>1
<1>6. CASE StepFails
  <2>1. call.phase = "doing"
    BY <1>6 DEF StepFails
  <2>2. index = call.before.index
    BY <1>2, <1>3, <2>1 DEF RefreshForm
  <2>3. PICK v \in 1 .. upstream[k] : Installing(v)
    BY <1>2, <1>3, <2>1 DEF RefreshForm
  <2>4. docs' = docs /\ index' = index
    BY <1>2, <1>3, <1>6, <2>3, InstallFails
  <2>5. Undo(Next1) = <<>> /\ Undo(Next1) = UndoCommit(Next1)
    <3>1. Undo(Next1) \in Seq(Writes) /\ Going(Undo(Next1), "undoing")
      BY <1>1, <1>6, UndoTypes DEF StepFails
    <3>2. Undo(Next1) = <<>>
      BY <1>1, <3>1, GoesOn
    <3> QED BY <3>2 DEF Undo
  <2>6. (Next1 = Src(k, v) /\ docs[k] = old) \/ Next1 = Cfg(k, v) \/ Next1 = Idx
    BY <1>2, <1>3, <1>6, <2>3, InstallFails
  <2>7. docs[k] = old
    <3>1. CASE Next1 = Cfg(k, v)
      <4>1. UndoCommit(Next1) = PutSource(k, old)
        BY <1>2, <3>1 DEF UndoCommit, Cfg
      <4>2. PutSource(k, old) = <<Src(k, old.source)>>
        BY Lists
      <4> QED BY <2>5, <4>1, <4>2, Heads
    <3>2. CASE Next1 = Idx /\ docs[k] # old
      <4>1. UndoCommit(Next1) = Put(k, old)
        BY <1>2, <3>2 DEF UndoCommit, Idx
      <4>2. Put(k, old) = <<Src(k, old.source), Cfg(k, old.config)>>
        BY Lists
      <4> QED BY <2>5, <4>1, <4>2, Heads
    <3> QED BY <2>6, <3>1, <3>2
  <2> QED BY <2>2, <2>4, <2>7
<1>7. CASE UndoOK
  <2>1. call.phase = "undoing"
    BY <1>1, <1>7 DEF UndoOK, Types, CallTypes, Call
  <2> DEFINE a == Src(k, old.source)
             b == Cfg(k, old.config)
  <2>2. /\ call.todo \in {<<a, b>>, <<a>>, <<b>>}
        /\ index = call.before.index
        /\ call.todo = <<a>> => docs[k].config = old.config
        /\ call.todo = <<b>> => docs[k].source = old.source
    BY <1>2, <1>3, <2>1 DEF RefreshForm
  <2>3. Rest = <<>>
    <3>1. Rest \in Seq(Writes) /\ Going(Rest, call.phase)
          /\ call.phase \in {"doing", "undoing", "dirty"}
      BY <1>1, <1>7, <2>1, Taken DEF UndoOK
    <3> QED BY <1>1, <3>1, GoesOn
  <2>4. \/ call.todo = <<a>> /\ Next1 = a
        \/ call.todo = <<b>> /\ Next1 = b
    <3> HIDE DEF a, b
    <3>1. /\ Tail(<<a, b>>) = <<b>> /\ <<b>> # <<>> /\ Head(<<a>>) = a /\ Head(<<b>>) = b
      BY Heads
    <3> QED BY <2>2, <2>3, <3>1 DEF Next1, Rest
  <2>5. docs' = Written(Next1) /\ index' = index
    BY <1>7 DEF UndoOK
  <2>6. docs' = [docs EXCEPT ![k] = old]
    <3>1. old = [source |-> old.source, config |-> old.config]
      BY <1>3 DEF Doc
    <3>2. CASE call.todo = <<a>> /\ Next1 = a
      BY <1>3, <2>2, <2>5, <3>1, <3>2, SrcDoes
    <3>3. CASE call.todo = <<b>> /\ Next1 = b
      BY <1>3, <2>2, <2>5, <3>1, <3>3, CfgDoes
    <3> QED BY <2>4, <3>2, <3>3
  <2>7. docs'[k] = old /\ \A i \in Ids \ {k} : docs'[i] = docs[i]
    BY <1>3, <2>6, StaysHome
  <2> QED BY <2>2, <2>5, <2>7
<1> QED BY <1>6, <1>7

-----------------------------------------------------------------------------
(* The files stay correct whatever is interrupted.                         *)

(* At every moment, and so after every kill, each profile the index names  *)
(* has its source and its config: Add writes them before the index, Remove *)
(* deletes them after it, RestoreCheckpoint restores them before it.       *)
THEOREM DocumentsAreServed == Spec => []Served
<1>1. StoreInv => Served
  BY DEF StoreInv, Types, Index, AllFit, Fit, Served
<1> QED BY <1>1, StoreAlways, PTL

(* Between calls an ETag the server would confirm belongs to an installed  *)
(* document: CommitUpdate saves the index last, and a kill, an undo or a   *)
(* refused commit before that leaves an ETag older than the publication.   *)
THEOREM RefreshesHeal == Spec => []RefreshHeals
<1>1. StoreInv => RefreshHeals
  BY DEF StoreInv, Types, Index, AllFit, Fit, Restores, RefreshHeals
<1> QED BY <1>1, StoreAlways, PTL

(* RestoreCheckpoint that succeeds gives back every file and the index as  *)
(* they were, whatever was added, refreshed, removed or left half-done     *)
(* since, and in whatever order Go visits the saved files.                 *)
THEOREM RestoresAreComplete == Spec => RestoreComplete
<1>1. StoreInv /\ [Next]_vars =>
        [saved # NoCheckpoint /\ StepOK /\ Finishes("restore")
           => docs' = saved.docs /\ index' = saved.index]_vars
  BY RestoreEnds DEF Finishes, StepOK
<1> QED BY <1>1, StoreAlways, PTL DEF Spec, RestoreComplete

(* A commit never replaces a document by an earlier one: CommitUpdate      *)
(* compares the profile with the baseline of its download before it writes.*)
THEOREM NothingIsDowngraded == Spec => NoDowngrade
<1> DEFINE Kept ==
      \A id \in Ids : docs[id].config > docs'[id].config /\ docs'[id].config # 0
        => call.name = "restore" \/ call.phase # "doing"
<1>1. ASSUME StoreInv, [Next]_vars PROVE Kept
  <2>1. \A id \in Ids : docs[id].config \in Nat /\ docs'[id].config \in Nat
    <3>1. Types /\ Types'
      BY <1>1, TypesKept DEF StoreInv
    <3> QED BY <3>1, BoundAssumption DEF Types, Doc, Versions
  <2>2. CASE docs' = docs
    BY <2>1, <2>2
  <2>3. CASE StepOK \/ StepFails
    <3>1. call # Idle
      BY <2>3 DEF StepOK, StepFails
    <3>2. CASE call.name # "restore"
      BY <1>1, <2>1, <2>3, <3>1, <3>2, Forward
    <3> QED BY <3>2
  <2>4. CASE UndoOK \/ UndoFails
    BY <2>4 DEF UndoOK, UndoFails
  <2> QED BY <1>1, <2>2, <2>3, <2>4, DocumentsStay
<1>2. StoreInv /\ [Next]_vars => [Kept]_vars
  BY <1>1
<1> QED BY <1>2, StoreAlways, PTL DEF Spec, NoDowngrade

(* A commit that returns an error and whose undo did not fail leaves the   *)
(* documents and the index as they were, as long as a replacement that     *)
(* reports an error has not happened; with "late" faults it has.           *)
THEOREM CommitsAreAtomic ==
  ASSUME "late" \notin Faults
  PROVE  Spec => CommitAtomic
<1>1. StoreInv /\ [Next]_vars =>
        [/\ call # Idle /\ call.name = "refresh" /\ call.phase # "dirty"
         /\ StepFails \/ UndoOK
         /\ call' = Idle
         => docs' = call.before.docs /\ index' = call.before.index]_vars
  BY TakenBack
<1> QED BY <1>1, StoreAlways, PTL DEF Spec, CommitAtomic
=============================================================================
