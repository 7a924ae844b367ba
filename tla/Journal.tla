------------------------------- MODULE Journal -------------------------------
(***************************************************************************)
(* The cognitional event journal: one file to which a single writer (so    *)
(* its contract, single_writer) appends the records of a verified change,  *)
(* each admitted by replaying the file from its start, the last one only   *)
(* when the whole trace is explained.  A write may be torn; `recover'      *)
(* removes the torn end.                                                   *)
(*                                                                         *)
(* Around it stands a supplier of packet and source who may, before the    *)
(* journal is begun, set up to MaxEdits fields of either to another value. *)
(***************************************************************************)
EXTENDS VerifiedChange, FiniteSets

CONSTANTS
  Sources,     \* per profile, a source that its validator accepts
  Packets,     \* per profile, the packet bound to that source
  Alternatives,\* per field, the values an edit may give it
  MaxEdits,    \* bound on edits altogether
  MaxEdited,   \* bound on edits of a supply that is written to a journal
  MaxCrashes   \* bound on the deaths of the writer

ASSUME JournalAssumption ==
  MaxEdits \in Nat /\ MaxEdited \in Nat /\ MaxCrashes \in Nat /\ DOMAIN Sources = DOMAIN Packets

VARIABLES
  profile,   \* which of the goldens the supply started from
  packet,    \* the packet every operation is given
  source,    \* the source the supplier holds
  edits,     \* number of edits made
  file,      \* complete lines of the journal
  torn,      \* an unterminated end follows them
  writing,   \* the record being appended, as a sequence of none or one
  told,      \* the records counted by the last answer given
  crashes

supply == <<profile, packet, source, edits>>
vars == <<profile, packet, source, edits, file, torn, writing, told, crashes>>

-----------------------------------------------------------------------------
(* The supply.                                                             *)

(* Every place of a trace that holds a value: of a record or its payload.  *)
Places(records) ==
  {place \in (DOMAIN records) \X (DOMAIN Alternatives) :
      place[2] \in DOMAIN records[place[1]] \union DOMAIN records[place[1]].payload}

At(records, place) ==
  LET r == records[place[1]] IN
  IF place[2] \in DOMAIN r.payload THEN r.payload[place[2]] ELSE r[place[2]]

Put(records, place, v) ==
  IF place[2] \in DOMAIN records[place[1]].payload
    THEN [records EXCEPT ![place[1]].payload[place[2]] = v]
    ELSE [records EXCEPT ![place[1]][place[2]] = v]

Without(payload, f) == [g \in DOMAIN payload \ {f} |-> payload[g]]

(* A value is replaced, a field dropped or an unknown one added.           *)
EditSource ==
  /\ file = <<>> /\ writing = <<>> /\ ~torn
  /\ edits < MaxEdits
  /\ \/ \E place \in Places(source.records) :
          \E v \in Alternatives[place[2]] \ {At(source.records, place)} :
             source' = [source EXCEPT !.records = Put(@, place, v)]
     \/ \E i \in DOMAIN source.records :
          \E f \in DOMAIN source.records[i].payload :
             source' = [source EXCEPT !.records[i].payload = Without(@, f)]
     \/ \E i \in DOMAIN source.records :
          source' = [source EXCEPT !.records[i].payload = [note |-> "extra"] @@ @]
  /\ edits' = edits + 1
  /\ UNCHANGED <<profile, packet, file, torn, writing, told, crashes>>

EditPacket ==
  /\ file = <<>> /\ writing = <<>> /\ ~torn
  /\ edits < MaxEdits
  /\ \/ \E f \in {"candidate", "artifact", "implementer", "obligation", "accepted"}
                 \intersect DOMAIN packet.final :
          \E v \in Alternatives[f] \ {packet.final[f]} :
             packet' = [packet EXCEPT !.final[f] = v]
     \/ \E f \in DOMAIN packet.final : packet' = [packet EXCEPT !.final = Without(@, f)]
     \/ \E v \in Alternatives["purpose"] : packet' = [packet EXCEPT !.purpose = v]
     \/ packet' = [packet EXCEPT !.insight.question = "another question"]
     \/ /\ "procedure" \in DOMAIN packet.final
        /\ packet' = [packet EXCEPT !.procedure.id = packet.insight.id,
                                    !.final.procedure = packet.insight.id]
  /\ edits' = edits + 1
  /\ UNCHANGED <<profile, source, file, torn, writing, told, crashes>>

(* The packet, its digest taken of the source as it now is.                *)
Sealed == [packet EXCEPT !.digest = SourceDigest(source)]

-----------------------------------------------------------------------------
(* The replay controller, over the records it admitted so far.             *)

Source(records) == [version |-> "m0", records |-> records]

(* Without the verification of the last record.                            *)
AdmitsInOrder(p, admitted, r) ==
  /\ Len(admitted) < Len(M0!Transitions)
  /\ r.type = M0!Transitions[Len(admitted) + 1][1]
  /\ \A i \in DOMAIN admitted : admitted[i].id # r.id
  /\ r.causes = IF admitted = <<>> THEN <<>> ELSE <<Last(admitted).id>>

Admits(p, admitted, r) ==
  /\ Len(admitted) < Len(M0!Transitions)
  /\ r.type = M0!Transitions[Len(admitted) + 1][1]
  /\ \A i \in DOMAIN admitted : admitted[i].id # r.id
  /\ r.causes = IF admitted = <<>> THEN <<>> ELSE <<Last(admitted).id>>
  /\ Len(admitted) + 1 = Len(M0!Transitions) =>
        Explain(p, Source(Append(admitted, r))) # Refused

Replays(p, records) ==
  \A n \in DOMAIN records : Admits(p, SubSeq(records, 1, n - 1), records[n])

Complete(records) == Len(records) = Len(M0!Transitions)

-----------------------------------------------------------------------------
(* The journal.                                                            *)

(* append_event up to its write: the whole file is read, replayed and      *)
(* found complete, and the record admitted after it.                       *)
BeginAppend(r) ==
  /\ writing = <<>> /\ ~torn
  /\ Replays(packet, file)
  /\ Admits(packet, file, r)
  /\ writing' = <<r>>
  /\ UNCHANGED <<supply, file, torn, told, crashes>>

(* The line is written and synced, and the answer counts it.               *)
FinishAppend ==
  /\ writing # <<>>
  /\ file' = file \o writing
  /\ told' = file'
  /\ writing' = <<>>
  /\ UNCHANGED <<supply, torn, crashes>>

(* The writer dies in its write, or the write is partial: nothing, a torn  *)
(* line, or the whole line without the answer.                             *)
Crash ==
  /\ writing # <<>> /\ crashes < MaxCrashes
  /\ \/ UNCHANGED <<file, torn>>
     \/ torn' = TRUE /\ UNCHANGED file
     \/ file' = file \o writing /\ UNCHANGED torn
  /\ writing' = <<>>
  /\ crashes' = crashes + 1
  /\ UNCHANGED <<supply, told>>

(* inspect_journal; a torn end is refused.                                 *)
Inspect ==
  /\ writing = <<>> /\ ~torn
  /\ Replays(packet, file)
  /\ told' = file
  /\ UNCHANGED <<supply, file, torn, writing, crashes>>

(* recover_trailing_fragment: what is terminated must replay, and stays.   *)
Recover ==
  /\ writing = <<>>
  /\ Replays(packet, file)
  /\ torn' = FALSE
  /\ told' = file
  /\ UNCHANGED <<supply, file, writing, crashes>>

-----------------------------------------------------------------------------
(* The records a writer may hand in: the source's own, or as they were     *)
(* before it was edited.                                                   *)
Offered ==
  IF profile = "m0" /\ edits <= MaxEdited
    THEN ToSet(source.records) \union ToSet(Sources[profile].records) ELSE {}

Init ==
  /\ profile \in DOMAIN Sources
  /\ packet = Packets[profile] /\ source = Sources[profile] /\ edits = 0
  /\ file = <<>> /\ torn = FALSE /\ writing = <<>> /\ told = <<>> /\ crashes = 0

Next ==
  \/ EditSource
  \/ EditPacket
  \/ \E r \in Offered : BeginAppend(r)
  \/ FinishAppend
  \/ Crash
  \/ Inspect
  \/ Recover

Spec == Init /\ [][Next]_vars

-----------------------------------------------------------------------------
(* What an edit may change unnoticed.                                     *)
Nominal == {"id", "causes", "at", "result", "finding", "findingDigest"}

Superseded(records, i) == \E j \in DOMAIN records : i < j /\ records[j].type = "remediation.started"

(* Nothing a trace says of the work it ends with can be altered by         *)
(* MaxEdits edits: a trace the validator still accepts, and a packet bound *)
(* to it, differ from what they were only in names that stand for nothing  *)
(* but themselves, in the times of records, and in what the generation     *)
(* that failed its verification had produced.                              *)
WorkIsSealed ==
  Verify(Sealed, source) # Refused =>
    /\ packet = Packets[profile]
    /\ \A i \in DOMAIN source.records :
          DOMAIN source.records[i].payload = DOMAIN Sources[profile].records[i].payload
    /\ \A place \in Places(source.records) :
          At(source.records, place) # At(Sources[profile].records, place) =>
             \/ place[2] \in Nominal
             \/ Superseded(source.records, place[1]) /\ place[2] \in M1!Work

(* Whatever the first stage projects, the two stages after it accept: the  *)
(* field tables of the three programs agree for every accepted source.     *)
ProjectionsAreExplained ==
  Verify(Sealed, source) # Refused => Explain(Sealed, source) # Refused

(* A terminal status is about a record of the source: the candidate it     *)
(* names was accepted, another actor than its implementer passed it, and   *)
(* the evidence holds every acceptance and verdict there was.              *)
StatusIsGrounded ==
  LET status == Explain(Sealed, source)
      t      == source.records
      named  == {i \in DOMAIN t : t[i].id = status.event}
  IN status # Refused =>
       /\ \E i \in named :
            /\ t[i].payload.conclusion = "PASS"
            /\ \E j \in 1..(i - 1) :
                 /\ t[j].id = t[i].payload.accepted
                 /\ t[j].payload.candidate = status.candidate
                 /\ t[j].payload.implementer # t[i].actor
       /\ \A i \in DOMAIN t :
            t[i].type \in {"generation.accepted", "verification.adjudicated"} =>
              /\ t[i].id \in ToSet(status.telos.evidence)
              /\ \E g \in DOMAIN status.generations :
                    t[i].id \in {status.generations[g].accepted, status.generations[g].qa}

(* The three programs, run one after another, say the same of one trace.   *)
SourcesAreExplained == ProjectionsAreExplained /\ StatusIsGrounded

(* What an answer has reported stays in the file through torn writes and   *)
(* recoveries, and the terminated lines can always be replayed.            *)
AnswersAreKept == IsPrefix(told, file) /\ Replays(packet, file)

(* A complete journal holds exactly the trace its packet was sealed with.  *)
CompleteIsSealed == Complete(file) => Source(file) = packet.digest

(* The journal is the trace its packet was sealed with, or a part of it.   *)
JournalIsTrue == AnswersAreKept /\ CompleteIsSealed
=============================================================================
