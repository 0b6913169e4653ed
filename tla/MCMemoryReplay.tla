--------------------------- MODULE MCMemoryReplay ---------------------------
(***************************************************************************)
(* The memory store (MCMemory), one channel's event buffer (RingBuffer)    *)
(* and the replay built on it (MCEventResume) for TLC, each by itself: a   *)
(* behaviour is a behaviour of the part chosen at the start.               *)
(***************************************************************************)
EXTENDS MCMemory, RingBuffer, MCEventResume

\* Few IDs and times, so that IDs come back (BroadcastEvent takes an event that
\* has one) and times go backwards.
MCEvent == [ID : 1..3, Ts : 0..2]

VARIABLE part

replayVars == <<resumeVars, calm, load>>
coreVars == <<part, vars, ringVars, replayVars>>

MemoryStep(A) == part = "memory" /\ A /\ UNCHANGED <<part, ringVars, replayVars>>
RingStep == part = "ring" /\ RingNext /\ UNCHANGED <<part, vars, replayVars>>
ResumeStep(A) == part = "resume" /\ A /\ History /\ UNCHANGED <<part, vars, ringVars>>

CoreInit ==
  /\ part \in {"memory", "ring", "resume"}
  /\ Init /\ RingInit /\ HistoryInit
  /\ part = "memory" \/ setup = Local
  /\ part = "resume" \/ load = "channels"

CoreNext == MemoryStep(Next) \/ RingStep \/ ResumeStep(ResumeNext)

\* Fairness and ResumeFairness, for the part that runs.
CoreFairness ==
  /\ \A p \in Proc : WF_coreVars(MemoryStep(ProcStep(p)))
  /\ \A m \in Node : WF_coreVars(MemoryStep(\E d \in net : d.dst = m /\ Deliver(d)))
  /\ \A n, m \in Node : WF_coreVars(MemoryStep(Connect(n, m)))
  /\ \A p \in Broadcaster : WF_coreVars(ResumeStep(HubStep(p)))
  /\ WF_coreVars(ResumeStep(ConnStep))
  /\ WF_coreVars(ResumeStep(Open))
  /\ WF_coreVars(ResumeStep(OnMessage))

CoreSpec == CoreInit /\ [][CoreNext]_coreVars /\ CoreFairness
=============================================================================
