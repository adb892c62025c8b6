------------------------------ MODULE RemoteDebug ------------------------------
(***************************************************************************)
(* The remote debugger: the server of nullc_remote.h inside the process    *)
(* that runs the program, and the client of nullc_ide/main.cpp.            *)
(*                                                                         *)
(* Three threads of the server share one message.  The dispatcher receives *)
(* it into data, raises the event of the thread the message is for and     *)
(* waits for processed.  The command thread answers questions and places   *)
(* breakpoints.  The program's own thread, at a breakpoint, reports it and *)
(* waits for the answer.  Events are flags that the waiter polls and       *)
(* clears; where threads are POSIX they are condition variables that are   *)
(* waited for without a predicate, so that a signal is lost when nobody    *)
(* waits (Lossy).                                                          *)
(*                                                                         *)
(* The client has two threads on one socket as well: the window asks       *)
(* questions and reads replies, the pipe thread follows the stops of the   *)
(* program.                                                                *)
(*                                                                         *)
(* DebuggingProof extends this module and Breakpoints: what both have is   *)
(* named Remote... here.                                                   *)
(***************************************************************************)
EXTENDS Naturals, Sequences

CONSTANTS
    Lossy,     \* events are condition variables
    Slow,      \* a receive of the client may time out
    Rash,      \* what the user does too early: "overlap" sends before the last
               \* message has been dealt with, "browse" looks at variables and
               \* "press" presses continue while the program runs, "leave"
               \* goes when a stop may be under way
    MaxSent,   \* bound: what the client sends
    MaxStops   \* bound: stops of the program

ASSUME RemoteDebugAssumption ==
    /\ Lossy \in BOOLEAN /\ Slow \in BOOLEAN
    /\ Rash \subseteq {"overlap", "browse", "press", "leave"}
    /\ MaxSent \in Nat /\ MaxStops \in Nat

VARIABLES
    \* server
    data,          \* Dispatcher::data: [cmd, inst]
    processed,     \* the event the dispatcher waits for
    ready,         \* the event of the command thread
    breakContinue, \* the event of the program: "no", "yes", or "unset", the -1
                   \* of before the first stop, which is not "no"
    registered,    \* breakInitialized
    dispatcher,    \* "accept", "select", "raise", "about" to wait, "wait", "end"
    command,       \* command thread: "about", "wait", "take", then the message's
                   \* name, "signal"
    program,       \* "run", "stop", "hit", "stack", "calls", "about", "wait",
                   \* "signal", "read", "act"
    answer,        \* while in "act": what breakFunction returned
    armed,         \* breakpoints: "lasting", and "once" for a step
    finished,      \* nullcFinished
    \* client
    window,        \* "away", "init", "ready", "data"
    pipe,          \* pipe thread: "none", "listen", "stack", "calls", "shown"
    pressed,       \* breakResponse, and breakCommand: [event, command]
    \* network
    toServer,      \* what the dispatcher has still to receive
    toClient,      \* what the client has still to receive
    serving,       \* the socket of the server leads to this client
    \* history and bounds
    taken,         \* the receiver has read the message in data
    owed,          \* the answers the user has given to the present stop
    sent, stops

server   == <<data, processed, ready, breakContinue, registered, dispatcher, command>>
debuggee == <<program, answer, armed, finished, stops>>
client   == <<window, pipe, pressed, sent>>
network  == <<toServer, toClient, serving>>
history  == <<taken, owed>>
remoteVars == <<server, debuggee, client, network, history>>

Commands == {"proceed", "step"}

\* breakInst shares its storage with the rest of a message
Msg(cmd)     == [cmd |-> cmd, inst |-> "other"]

Continue(c)  == [cmd |-> "CONTINUE", inst |-> c]
ForCommand   == {"INFO", "SET", "CLEAR", "DATA", "DETACH"}
Messages     == {Msg(cmd) : cmd \in ForCommand} \cup {Continue(c) : c \in Commands}
Wire         == Messages \cup {Msg("connect"), Msg("eof")}
Reports      == {"INFO", "DATA", "HIT", "STACK", "CALLS"}

RemoteInit ==
    /\ data = Msg("eof") /\ processed = FALSE /\ ready = FALSE
    /\ breakContinue = (IF Lossy THEN "no" ELSE "unset") /\ registered = FALSE
    /\ dispatcher = "accept" /\ command = "about"
    /\ program = "run" /\ answer = "other" /\ armed = {} /\ finished = FALSE /\ stops = 0
    /\ window = "away" /\ pipe = "none" /\ sent = 0
    /\ pressed = [event |-> FALSE, command |-> "proceed"]
    /\ toServer = <<>> /\ toClient = <<>> /\ serving = FALSE
    /\ taken = TRUE /\ owed = {}

\* a condition variable keeps no signal for later
Raised(waiting, old) == IF Lossy /\ ~waiting THEN old ELSE TRUE

\* what a thread does before it polls its flag, or sleeps on the condition
Await ==
    /\ \/ dispatcher = "about" /\ dispatcher' = "wait" /\ UNCHANGED <<command, program>>
       \/ command = "about" /\ command' = "wait" /\ UNCHANGED <<dispatcher, program>>
       \/ program = "about" /\ program' = "wait" /\ UNCHANGED <<dispatcher, command>>
    /\ UNCHANGED <<data, processed, ready, breakContinue, registered, answer, armed,
                   finished, stops, client, network, history>>

\* what is sent to a client that has gone is lost
Report(cmd) == toClient' = IF serving THEN Append(toClient, cmd) ELSE toClient

(***************************************************************************)
(* ClearBreakpoints, and the program is released if it waits: a flag is    *)
(* only set when it is 0, which it also is while the program runs.         *)
(***************************************************************************)
Release_clear ==
    /\ armed' = {}
    /\ data' = [data EXCEPT !.inst = "proceed"]
    /\ UNCHANGED breakContinue

Release ==
    /\ armed' = {}
    /\ data' = [data EXCEPT !.inst = "proceed"]
    /\ breakContinue' =
           IF Lossy THEN IF program = "wait" THEN "yes" ELSE breakContinue
           ELSE IF breakContinue = "no" THEN "yes" ELSE breakContinue
-----------------------------------------------------------------------------
(***************************************************************************)
(* DispatcherThread                                                        *)
(***************************************************************************)
Gone == \E i \in DOMAIN toServer : toServer[i].cmd = "eof"

Accept ==
    /\ dispatcher = "accept" /\ toServer # <<>>
    /\ dispatcher' = "select"
    /\ toServer' = Tail(toServer)
    /\ serving' = ~Gone
    /\ UNCHANGED <<data, processed, ready, breakContinue, registered, command,
                   debuggee, client, toClient, history>>

\* nullcFinished is looked at between two messages
Quit ==
    /\ dispatcher = "select" /\ finished
    /\ dispatcher' = "end" /\ finished' = FALSE /\ serving' = FALSE /\ toClient' = <<>>
    /\ UNCHANGED <<data, processed, ready, breakContinue, registered, command,
                   program, answer, armed, stops, client, toServer, history>>

Disconnected ==
    /\ dispatcher = "select" /\ ~finished
    /\ toServer # <<>> /\ Head(toServer).cmd = "eof"
    /\ toServer' = Tail(toServer)
    /\ dispatcher' = "accept"
    /\ Release
    /\ UNCHANGED <<processed, ready, registered, command, program, answer, finished, stops,
                   client, toClient, serving, history>>

\* a message nobody has registered for is dropped
Known(m) == m.cmd = "CONTINUE" => registered

Receive ==
    /\ dispatcher = "select" /\ ~finished
    /\ toServer # <<>> /\ Head(toServer) \in Messages
    /\ toServer' = Tail(toServer)
    /\ data' = Head(toServer)
    /\ IF Known(Head(toServer))
       THEN dispatcher' = "raise" /\ taken' = FALSE
       ELSE UNCHANGED <<dispatcher, taken>>
    /\ UNCHANGED <<processed, ready, breakContinue, registered, command, debuggee,
                   client, toClient, serving, owed>>

Raise_kept ==
    /\ dispatcher = "raise"
    /\ dispatcher' = "about"
    /\ IF data.cmd = "CONTINUE"
       THEN breakContinue' = "yes" /\ UNCHANGED ready
       ELSE ready' = Raised(command = "wait", ready) /\ UNCHANGED breakContinue
    /\ UNCHANGED <<data, processed, registered, command, debuggee, client, network, history>>

Raise ==
    /\ dispatcher = "raise"
    /\ dispatcher' = "about"
    /\ processed' = FALSE
    /\ IF data.cmd = "CONTINUE"
       THEN /\ breakContinue' = IF Raised(program = "wait", FALSE) THEN "yes" ELSE breakContinue
            /\ UNCHANGED ready
       ELSE ready' = Raised(command = "wait", ready) /\ UNCHANGED breakContinue
    /\ UNCHANGED <<data, registered, command, debuggee, client, network, history>>

Processed ==
    /\ dispatcher = "wait" /\ processed
    /\ dispatcher' = "select" /\ processed' = FALSE
    /\ UNCHANGED <<data, ready, breakContinue, registered, command, debuggee, client,
                   network, history>>
-----------------------------------------------------------------------------
(***************************************************************************)
(* GeneralCommandThread                                                    *)
(***************************************************************************)
Wake ==
    /\ command = "wait" /\ ready
    /\ ready' = FALSE /\ command' = "take"
    /\ UNCHANGED <<data, processed, breakContinue, registered, dispatcher, debuggee,
                   client, network, history>>

Take ==
    /\ command = "take"
    /\ command' = IF data.cmd \in ForCommand THEN data.cmd ELSE "signal"
    /\ taken' = TRUE
    /\ UNCHANGED <<data, processed, ready, breakContinue, registered, dispatcher,
                   debuggee, client, network, owed>>

Answer ==
    /\ command \in {"INFO", "DATA"}
    /\ Report(command)
    /\ command' = "signal"
    /\ UNCHANGED <<data, processed, ready, breakContinue, registered, dispatcher,
                   debuggee, client, toServer, serving, history>>

SetBreakpoint ==
    /\ command \in {"SET", "CLEAR"}
    /\ armed' = IF command = "SET" THEN armed \cup {"lasting"} ELSE armed \ {"lasting"}
    /\ command' = "signal"
    /\ UNCHANGED <<data, processed, ready, breakContinue, registered, dispatcher,
                   program, answer, finished, stops, client, network, history>>

Detached ==
    /\ command = "DETACH"
    /\ Release
    /\ command' = "signal"
    /\ UNCHANGED <<processed, ready, registered, dispatcher, program, answer, finished, stops,
                   client, network, history>>

Signal ==
    /\ command = "signal"
    /\ processed' = Raised(dispatcher = "wait", processed)
    /\ command' = "about"
    /\ UNCHANGED <<data, ready, breakContinue, registered, dispatcher, debuggee, client,
                   network, history>>
-----------------------------------------------------------------------------
(***************************************************************************)
(* The program's thread: PipeDebugBreak.                                   *)
(***************************************************************************)
Break ==
    /\ program = "run" /\ armed # {} /\ ~finished /\ dispatcher # "end"
    /\ stops < MaxStops
    /\ program' = "stop" /\ stops' = stops + 1
    /\ \E b \in armed : armed' = IF b = "once" THEN armed \ {b} ELSE armed
    /\ UNCHANGED <<server, answer, finished, client, network, history>>

Register_first ==
    /\ program = "stop"
    /\ program' = "hit"
    /\ registered' = TRUE
    /\ UNCHANGED <<data, processed, ready, breakContinue, dispatcher, command, answer, armed,
                   finished, stops, client, network, history>>

Register_second ==
    /\ program = "stop"
    /\ program' = "hit"
    /\ registered' = (stops > 1)
    /\ breakContinue' = IF Lossy THEN breakContinue ELSE "no"
    /\ UNCHANGED <<data, processed, ready, dispatcher, command, answer, armed, finished, stops,
                   client, network, history>>

Register ==
    /\ program = "stop"
    /\ program' = "hit"
    /\ registered' = TRUE
    /\ breakContinue' = IF Lossy THEN breakContinue ELSE "no"
    /\ UNCHANGED <<data, processed, ready, dispatcher, command, answer, armed, finished, stops,
                   client, network, history>>

ReportStop_once ==
    /\ \/ /\ program = "hit" /\ program' = "stack"
          /\ IF stops = 1 THEN Report("HIT") ELSE UNCHANGED toClient
       \/ program = "stack" /\ Report("STACK") /\ program' = "calls"
       \/ program = "calls" /\ Report("CALLS") /\ program' = "about"
    /\ UNCHANGED <<server, answer, armed, finished, stops, client, toServer, serving, history>>

ReportStop ==
    /\ \/ program = "hit"   /\ Report("HIT")   /\ program' = "stack"
       \/ program = "stack" /\ Report("STACK") /\ program' = "calls"
       \/ program = "calls" /\ Report("CALLS") /\ program' = "about"
    /\ UNCHANGED <<server, answer, armed, finished, stops, client, toServer, serving, history>>

GoOn ==
    /\ program = "wait" /\ breakContinue # "no"
    /\ program' = "signal" /\ breakContinue' = "no"
    /\ UNCHANGED <<data, processed, ready, registered, dispatcher, command, answer, armed,
                   finished, stops, client, network, history>>

SignalResumed ==
    /\ program = "signal"
    /\ program' = "read"
    /\ processed' = Raised(dispatcher = "wait", processed)
    /\ UNCHANGED <<data, ready, breakContinue, registered, dispatcher, command, answer, armed,
                   finished, stops, client, network, history>>

\* GetData, after processed has been signalled
ReadAnswer ==
    /\ program = "read"
    /\ program' = "act" /\ answer' = data.inst
    /\ taken' = (taken \/ data.cmd = "CONTINUE")
    /\ owed' = {}
    /\ UNCHANGED <<server, armed, finished, stops, client, network>>

\* ExecNop places the breakpoint of a step and goes on
Act ==
    /\ program = "act"
    /\ program' = "run" /\ answer' = "other"
    /\ armed' = IF answer = "step" THEN armed \cup {"once"} ELSE armed
    /\ UNCHANGED <<server, finished, stops, client, network, history>>

\* the host ends the server when it has no more programs to run
Finish ==
    /\ program = "run" /\ ~finished /\ dispatcher # "end"
    /\ finished' = TRUE
    /\ UNCHANGED <<server, program, answer, armed, stops, client, network, history>>
-----------------------------------------------------------------------------
(***************************************************************************)
(* The window of the client.                                               *)
(***************************************************************************)
Open == window # "away" /\ dispatcher # "end"

Send(m) ==
    /\ sent < MaxSent /\ sent' = sent + 1
    /\ toServer' = Append(toServer, m)

\* the server has done what the last message asked for
Settled ==
    /\ toServer = <<>> /\ dispatcher \in {"accept", "select"} /\ command \in {"about", "wait"}
    /\ program \notin {"signal", "read", "act"}
    /\ ~(program \in {"about", "wait"} /\ breakContinue # "no") /\ ~pressed.event

\* the next message, or none within five seconds
Received == \/ toClient # <<>> /\ toClient' = Tail(toClient)
            \/ Slow /\ toClient = <<>> /\ UNCHANGED toClient

Arrived(kind) == toClient # <<>> /\ Head(toClient) = kind

MayAsk(why) == window = "ready" /\ Open /\ (Settled \/ why \in Rash)

Attach ==
    /\ window = "away" /\ dispatcher # "end" /\ (Settled \/ "overlap" \in Rash)
    /\ sent < MaxSent /\ sent' = sent + 1
    /\ toServer' = toServer \o <<Msg("connect"), Msg("INFO")>>
    /\ window' = "init" /\ toClient' = <<>>
    /\ UNCHANGED <<server, debuggee, pipe, pressed, serving, history>>

\* PipeInit: the pipe thread starts when every question was answered
InitReply ==
    /\ window = "init" /\ Received
    /\ window' = "ready"
    /\ pipe' = IF Arrived("INFO") THEN "listen" ELSE "none"
    /\ UNCHANGED <<server, debuggee, pressed, sent, toServer, serving, history>>

SendBreakpoint ==
    /\ MayAsk("overlap")
    /\ \E cmd \in {"SET", "CLEAR"} : Send(Msg(cmd))
    /\ UNCHANGED <<server, debuggee, window, pipe, pressed, toClient, serving, history>>

AskData ==
    /\ MayAsk("overlap")
    /\ pipe = "shown" \/ "browse" \in Rash
    /\ Send(Msg("DATA"))
    /\ window' = "data"
    /\ UNCHANGED <<server, debuggee, pipe, pressed, toClient, serving, history>>

\* a reply of another kind counts as none
DataReply ==
    /\ window = "data" /\ Received
    /\ window' = "ready"
    /\ UNCHANGED <<server, debuggee, pipe, pressed, sent, toServer, serving, history>>

\* SetEvent; to go on without stepping leaves the command as it is
Press ==
    /\ MayAsk("overlap")
    /\ pipe = "shown" \/ "press" \in Rash
    /\ \E c \in {"step", pressed.command} :
           /\ pressed' = [event |-> TRUE, command |-> c]
           /\ owed' = IF pipe = "shown" THEN {c} ELSE owed
    /\ UNCHANGED <<server, debuggee, window, pipe, sent, network, taken>>

Quiet == Settled /\ (program \in {"about", "wait"} \/ (program = "run" /\ armed = {}))

\* the pipe thread is killed, DETACH is sent and the socket closed; or the
\* client ends without a word
Leave ==
    /\ window # "away" /\ (Quiet \/ "leave" \in Rash)
    /\ sent < MaxSent /\ sent' = sent + 1
    /\ \/ toServer' = Append(toServer, Msg("eof"))
       \/ window = "ready" /\ toServer' = toServer \o <<Msg("DETACH"), Msg("eof")>>
    /\ window' = "away" /\ pipe' = "none"
    /\ toClient' = <<>> /\ serving' = FALSE
    /\ owed' = owed \cup {"proceed"}
    /\ UNCHANGED <<server, debuggee, pressed, taken>>
-----------------------------------------------------------------------------
(***************************************************************************)
(* PipeThread.  It does not look whether the stack and the calls arrived.  *)
(***************************************************************************)
Listen ==
    /\ pipe = "listen" /\ toClient # <<>> /\ Received
    /\ pipe' = IF Arrived("HIT") THEN "stack" ELSE "listen"
    /\ UNCHANGED <<server, debuggee, window, pressed, sent, toServer, serving, history>>

Follow ==
    /\ pipe \in {"stack", "calls"} /\ Received
    /\ IF pipe = "stack" THEN pipe' = "calls" /\ UNCHANGED pressed
       ELSE pipe' = "shown" /\ pressed' = [pressed EXCEPT !.command = "proceed"]
    /\ UNCHANGED <<server, debuggee, window, sent, toServer, serving, history>>

SendContinue ==
    /\ pipe = "shown" /\ pressed.event
    /\ Send(Continue(pressed.command))
    /\ pressed' = [pressed EXCEPT !.event = FALSE]
    /\ pipe' = "listen"
    /\ UNCHANGED <<server, debuggee, window, toClient, serving, history>>

Dispatch == Accept \/ Quit \/ Disconnected \/ Receive \/ Raise \/ Processed
Serve    == Wake \/ Take \/ Answer \/ SetBreakpoint \/ Detached \/ Signal
Pause    == Register \/ ReportStop \/ GoOn \/ SignalResumed \/ ReadAnswer \/ Act
Window   == Attach \/ InitReply \/ SendBreakpoint \/ AskData \/ DataReply \/ Press \/ Leave
Pipe     == Listen \/ Follow \/ SendContinue

RemoteNext == Await \/ Dispatch \/ Serve \/ Pause \/ Break \/ Finish \/ Window \/ Pipe

\* The threads of the server and the client's pipe thread keep running; the
\* user need not do anything, and a program need not reach a breakpoint.
Fairness ==
    /\ WF_remoteVars(Await)
    /\ WF_remoteVars(Dispatch) /\ WF_remoteVars(Serve) /\ WF_remoteVars(Pause)
    /\ WF_remoteVars(Pipe) /\ WF_remoteVars(InitReply) /\ WF_remoteVars(DataReply)

RemoteSpec == RemoteInit /\ [][RemoteNext]_remoteVars
LiveSpec == RemoteSpec /\ Fairness
-----------------------------------------------------------------------------
\* Threads, events and messages are in states the code has.
RemoteTypeOK ==
    /\ data \in [cmd : ForCommand \cup {"CONTINUE", "eof"}, inst : Commands \cup {"other"}]
    /\ processed \in BOOLEAN /\ ready \in BOOLEAN /\ registered \in BOOLEAN
    /\ breakContinue \in {"unset", "no", "yes"}
    /\ dispatcher \in {"accept", "select", "raise", "about", "wait", "end"}
    /\ command \in ForCommand \cup {"about", "wait", "take", "signal"}
    /\ program \in {"run", "stop", "hit", "stack", "calls", "about", "wait", "signal",
                   "read", "act"}
    /\ answer \in Commands \cup {"other"} /\ armed \subseteq {"lasting", "once"}
    /\ finished \in BOOLEAN /\ taken \in BOOLEAN /\ owed \subseteq Commands
    /\ window \in {"away", "init", "ready", "data"}
    /\ pipe \in {"none", "listen", "stack", "calls", "shown"}
    /\ pressed \in [event : BOOLEAN, command : Commands]
    /\ toServer \in Seq(Wire) /\ toClient \in Seq(Reports) /\ serving \in BOOLEAN
    /\ sent \in 0..MaxSent /\ stops \in 0..MaxStops

\* The program does what the user answered to this stop, or goes on because the
\* client has gone; never what another message holds in the same bytes.
Obeys == [][program = "read" /\ program' = "act" => answer' \in owed]_remoteVars

\* The message in data stays until the thread it is for has read it: none is
\* lost, and none is read twice over another.
Delivered == [][data' # data => taken]_remoteVars

\* A stop that the client can be told of is shown to the user, who alone can end
\* it, unless the client leaves first.
StopsShown ==
    program = "hit" /\ pipe = "listen" ~> pipe \in {"shown", "none"}

\* A continue that was sent reaches the program: it does not stay in the stop.
Continued ==
    (\E i \in DOMAIN toServer : toServer[i].cmd = "CONTINUE") ~> program \notin {"about", "wait"}

\* When the client has gone no program stays stopped.
Released ==
    window = "away" ~> (program = "run" \/ window # "away")
==============================================================================
