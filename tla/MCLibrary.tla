------------------------------ MODULE MCLibrary ------------------------------
(***************************************************************************)
(* The library's parts beside the network: serialisation, broadcast        *)
(* events, audio devices and files, the console, tasks, and sealed         *)
(* content.  They share no state: a behaviour moves one part, picked at    *)
(* the start.                                                              *)
(***************************************************************************)
EXTENDS Serialisation, Broadcast, AudioDevices, AudioFiles, InputLine, Console, Tasks, Sealing

CONSTANTS Parts

VARIABLE part

vars == <<part, packetVars, bcVars, audioVars, fileVars, lineVars, consoleVars, taskVars, sealVars>>

\* Packets of both types around the edges of an octet, with and without their optional values,
\* and one of a type that the choice does not have.
First(n, o, t) == [type |-> "first", number |-> n, opt |-> o, tagged |-> t]
MCPackets ==
    {First(5, Absent, Absent), First(-129, 128, Absent), First(127, Absent, -1), First(0, 7, 9),
     [type |-> "second", number |-> 300, texts |-> <<>>],
     [type |-> "second", number |-> 1, texts |-> <<<<1, 2>>, <<>>>>],
     [First(1, Absent, Absent) EXCEPT !.type = "unknown"]}

\* Files of a format chunk and a data chunk, whole or cut, of sizes in and out of bounds.
Fmt(bits, channels, rate) == [tag |-> IF bits = 32 THEN 3 ELSE 1, channels |-> channels, rate |-> rate, bits |-> bits]
FmtChunks ==
    {[id |-> "fmt", size |-> s, samples |-> <<0>>, fmt |-> f] :
        s \in {0, 1, 3}, f \in {Fmt(8, 2, 2), Fmt(16, 1, 3), Fmt(24, 1, 2)}}
    \cup {[id |-> "fmt", size |-> 1, samples |-> <<0>>, fmt |-> f] :
             f \in {Fmt(8, 3, 2), Fmt(8, 1, 0), Fmt(12, 1, 1)}}
DataChunks ==
    {c \in {[id |-> "data", size |-> s, samples |-> d, fmt |-> Nothing] :
               s \in {0, 3, 4, 5}, d \in {<<>>, <<1, 0, 3>>, <<0, 3, 2, 1>>, <<1, 1, 2, 2, 0>>}} :
        Len(c.samples) <= c.size}
OtherChunk == [id |-> "other", size |-> 2, samples |-> <<0>>, fmt |-> Nothing]
MCFiles ==
    {[riff |-> r, tail |-> t, chunks |-> <<a, b>> \o e] :
        r \in BOOLEAN, t \in {"clean", "partial"}, a \in FmtChunks, b \in DataChunks,
        e \in {<<>>, <<OtherChunk>>}}
    \cup {[riff |-> TRUE, tail |-> "clean", chunks |-> <<b>>] : b \in DataChunks}
MCMultipliers == {<<1, 2>>, <<1, 1>>, <<2, 1>>}
MCTargets ==
    [type : {"char", "uchar", "short", "float", "int24"}, channels : 1 .. 3, rate : 0 .. 3]

\* A call through a task and a resume_on, and one that awaits a resume_on's task at once.
MCChains == [c1 |-> <<"task", "resume_on", "task">>, c2 |-> <<"resume_on", "task">>]

\* Keys that have parts in common, one of another suite, and the empty key.
Key(suite, sig, x, pq) == [valid |-> TRUE, suite |-> suite, sig |-> sig, x |-> x, pq |-> pq]
MCPrivateKeys ==
    {Key("s1", "g1", "x1", "q1"), Key("s1", "g2", "x1", "q2"), Key("s2", "g3", "x3", "q1"),
     [Key("s1", "", "", "") EXCEPT !.valid = FALSE]}

AFile == [riff |-> FALSE, tail |-> "clean", chunks |-> <<OtherChunk>>]

MCInit ==
    /\ part \in Parts
    /\ IF part = "packets" THEN PacketsInit
       ELSE sent = <<>> /\ wire = <<>> /\ buf = <<>> /\ visited = <<>> /\ thrown = "closed"
    /\ BroadcastInit /\ LineInit /\ ConsoleInit /\ TasksInit
    /\ SealingInit /\ (part # "streams" => enc.single)
    /\ IF part = "devices" THEN AudioInit ELSE AudioInit /\ dev = "alsa_play"
    /\ IF part = "files" THEN FilesInit
       ELSE file = AFile /\ next = 1 /\ format = Nothing /\ data = <<>> /\ status = "error" /\ saves = 0
            /\ block = Nothing /\ mixes = 0

MCNext ==
    \/ /\ part = "packets" /\ PacketsNext
       /\ UNCHANGED <<part, bcVars, audioVars, fileVars, lineVars, consoleVars, taskVars, sealVars>>
    \/ /\ part = "broadcast" /\ BroadcastNext
       /\ UNCHANGED <<part, packetVars, audioVars, fileVars, lineVars, consoleVars, taskVars, sealVars>>
    \/ /\ part = "devices" /\ AudioNext
       /\ UNCHANGED <<part, packetVars, bcVars, fileVars, lineVars, consoleVars, taskVars, sealVars>>
    \/ /\ part = "files" /\ FilesNext
       /\ UNCHANGED <<part, packetVars, bcVars, audioVars, lineVars, consoleVars, taskVars, sealVars>>
    \/ /\ part = "line" /\ LineNext
       /\ UNCHANGED <<part, packetVars, bcVars, audioVars, fileVars, consoleVars, taskVars, sealVars>>
    \/ /\ part = "console" /\ ConsoleNext
       /\ UNCHANGED <<part, packetVars, bcVars, audioVars, fileVars, lineVars, taskVars, sealVars>>
    \/ /\ part = "tasks" /\ TasksNext
       /\ UNCHANGED <<part, packetVars, bcVars, audioVars, fileVars, lineVars, consoleVars, sealVars>>
    \/ /\ part = "streams" /\ StreamNext
       /\ UNCHANGED <<part, packetVars, bcVars, audioVars, fileVars, lineVars, consoleVars, taskVars, envelopeVars>>
    \/ /\ part = "envelopes" /\ EnvelopeNext
       /\ UNCHANGED <<part, packetVars, bcVars, audioVars, fileVars, lineVars, consoleVars, taskVars, streamVars>>

\* Each part's own fairness; the others' steps are not taken in it.  A console's thread keeps
\* running, and a thread that was woken gets the mutex.
InConsole ==
    part = "console" /\ UNCHANGED <<part, packetVars, bcVars, audioVars, fileVars, lineVars, taskVars, sealVars>>
Fairness ==
    /\ AudioFairness
    /\ WF_vars(UiStep /\ InConsole)
    /\ \A c \in Callers : WF_vars(change_again(c) /\ InConsole)

Spec == MCInit /\ [][MCNext]_vars /\ Fairness
=============================================================================
