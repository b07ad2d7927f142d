------------------------------ MODULE MCDelivery ------------------------------
(* What is handed over reaches the other side: packets from client to      *)
(* client, events and timers through an event loop.  The two share no      *)
(* state: a behaviour moves one of them, picked at the start.  Of the      *)
(* clients, one's connection breaks, or it dies, and it comes back: the    *)
(* sender's while the receiver stays away, or the receiver's while the     *)
(* sender's holds.                                                         *)
EXTENDS MCPacketTransport, EventLoop

CONSTANT Parts

VARIABLE part

mcVars == <<part, vars, loopVars>>

MCInit == part \in Parts /\ Init /\ LoopInit

Breaking == IF part = "sender" THEN alice ELSE bob
ComesOnline(c) == part # "loop" /\ (part = "sender" => c = alice)
\* The sender whose connection holds is past its hello when it sends, so that it sends once.
Sends == part = "sender" \/ (helloDone[alice] /\ strand[alice] = "idle")

transport ==
    /\ part # "loop" /\ UNCHANGED <<part, loopVars>>
    /\ \A c \in Clients : (breaks'[c] # 0 => c = Breaking) /\ (conn'[c] # 0 => ComesOnline(c))
    /\ \A p \in Packets : sending'[p] # "no" => sending[p] # "no" \/ Sends

looping == part = "loop" /\ UNCHANGED <<part, vars>>

MCNext == (Next /\ transport) \/ (looping /\ LoopNext)

\* Of the transport nothing but connect is enabled at the start, so its strands and threads need
\* no part of their own.  The loop's handlers return, its thread and the callers that spin in
\* remove_receiver are scheduled, time passes, and stop() joins.
LoopFairness ==
    /\ WF_mcVars(looping /\ LoopStep) /\ WF_mcVars(looping /\ Tick)
    /\ WF_mcVars(looping /\ StopJoins)
    /\ \A t \in Others : WF_mcVars(looping /\ RemoveReturns(t))

MCSafety == MCInit /\ [][MCNext]_mcVars

MCSpec ==
    /\ MCSafety
    /\ Scheduling /\ \A c \in Clients : WF_vars(ComesOnline(c) /\ connect(c))
    /\ LoopFairness
=============================================================================
