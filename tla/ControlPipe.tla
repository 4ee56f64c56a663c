----------------------------- MODULE ControlPipe -----------------------------
(***************************************************************************)
(* The control channel from the desktop's telemetry thread to the sensor   *)
(* service (SensorBridgeClient::SetFpsTarget, ReadMonitoringControl and    *)
(* SensorBridgePublisher::PollFpsControl): a message pipe with a single    *)
(* instance whose server is the desktop.  Nothing blocks, so neither side  *)
(* waits for the other: every turn of its loop each makes the little       *)
(* progress it can.  A request that is not renewed expires.                *)
(*                                                                         *)
(* A tick is five seconds: the service polls in every tick, the desktop in *)
(* every tick or, at the slowest hardware interval without a game, in      *)
(* every second one.  The desktop may poll more often than that, and it is *)
(* the only one whose loop a change of the settings cuts short.            *)
(***************************************************************************)
EXTENDS Integers, Sequences

CONSTANTS Games,        \* process ids of games
          SlowPeriod,   \* ticks between polls at the slowest hardware interval
          FastLimit,    \* 15 seconds, in ticks
          SlowLimit,    \* 3 * interval + 2 seconds there, in ticks
          Reach,        \* ticks by which a steady request has arrived
          FirstListen   \* ConnectNamedPipe's first answer for a disconnected
                        \* instance: "listening" or "success"

ASSUME ControlAssumption ==
  /\ "none" \notin Games
  /\ SlowPeriod \in Nat \ {0} /\ Reach \in Nat
  /\ FastLimit \in Nat /\ SlowLimit \in Nat /\ FastLimit <= SlowLimit
  /\ FirstListen \in {"listening", "success"}

\* The code's limits: three intervals, and 15 seconds at least.  A request has
\* arrived after two polls of the desktop and what the service needs besides.
ASSUME TimingAssumption ==
  FastLimit >= 3 /\ SlowLimit >= 3 * SlowPeriod /\ Reach >= 2 * SlowPeriod + 3

VARIABLES desktop,   \* the telemetry thread: "polling", "paused" or "gone"
          wanted,    \* what it asked for in its last poll
          sincePoll, \* ticks since that poll
          pipe,      \* its pipe instance
          queue,     \* messages the service has not read
          handle,    \* the service's pending_control_pipe_
          requested, \* what the service acts on
          age,       \* ticks since last_control_request_
          polled,    \* the service has polled in this tick
          steady,    \* ghost: ticks since wanted changed or was disturbed
          silence    \* ghost: ticks since the desktop stopped polling

controlVars == <<desktop, wanted, sincePoll, pipe, queue, handle, requested, age,
                 polled, steady, silence>>

-----------------------------------------------------------------------------
\* The game to capture and whether the hardware interval is the slowest.
Requests == [target : Games \cup {"none"}, slow : BOOLEAN]
Default  == [target |-> "none", slow |-> FALSE]

\* With a game to measure the desktop polls every half second at least.
Period(r) == IF r.slow /\ r.target = "none" THEN SlowPeriod ELSE 1

\* Mutant: the limit does not grow with the interval.
LimitFlat(r) == FastLimit

Limit(r)  == IF r.slow THEN SlowLimit ELSE FastLimit

Capped(n, bound) == IF n < bound THEN n + 1 ELSE bound

ControlInit ==
  /\ desktop = "polling" /\ wanted \in Requests /\ sincePoll = 0
  /\ pipe = "none" /\ queue = <<>> /\ handle = "none"
  /\ requested = Default /\ age = SlowLimit + 1
  /\ polled = FALSE /\ steady = 0 /\ silence = 0

-----------------------------------------------------------------------------
\* The desktop.

\* The service's end of an instance that was disconnected or closed.
Orphan == IF handle = "open" THEN "orphan" ELSE handle

\* WriteFile to a connected instance.  The pipe's buffer holds one message: a
\* second one is either queued behind it or refused, and a refused write
\* disconnects the instance, which discards what was unread.
Write(r) ==
  \/ /\ queue' = Append(queue, r) /\ Len(queue) < 2
     /\ UNCHANGED <<pipe, handle>>
  \/ /\ queue # <<>>
     /\ queue' = <<>> /\ pipe' = "disconnected" /\ handle' = Orphan

\* ConnectNamedPipe for an instance that was disconnected.  If it reports
\* success without a client, the write that follows fails and disconnects
\* the instance again.
Listen ==
  /\ pipe' = IF FirstListen = "listening" THEN "listening" ELSE "disconnected"
  /\ UNCHANGED <<queue, handle>>

\* SetFpsTarget: create the instance, find it listening, write the request,
\* or disconnect a client that has gone and listen again.
SetFpsTarget(r) ==
  \/ pipe = "none" /\ handle # "orphan" /\ pipe' = "listening"
       /\ UNCHANGED <<queue, handle>>
  \/ pipe = "listening" /\ UNCHANGED <<pipe, queue, handle>>
  \/ pipe = "connected" /\ Write(r)
  \/ pipe = "broken" /\ Listen
  \/ pipe = "disconnected" /\ Listen

\* No mapping (Connect failed or is throttled), or no instance to be had
\* because the service still holds the previous one.
SetFpsTargetFails ==
  pipe = "none" /\ UNCHANGED <<pipe, queue, handle>>

\* A turn of the worker's loop.  The ghost steady starts over when the desktop
\* asks for something else, writes over an unread request, fails to ask or
\* fails the service's validation.
DesktopPoll ==
  /\ desktop = "polling"
  /\ \E r \in Requests :
       /\ wanted' = r
       /\ \/ /\ SetFpsTarget(r)
             /\ steady' = IF r # wanted \/ (pipe = "connected" /\ queue # <<>>)
                            THEN 0 ELSE steady
          \/ SetFpsTargetFails /\ steady' = 0
  /\ sincePoll' = 0
  /\ UNCHANGED <<desktop, requested, age, polled, silence>>

\* SensorBridgeClient::Close after a failed Collect takes the pipe with it.
\* What was written and not read can still be read.
CloseControl ==
  /\ desktop = "polling" /\ pipe # "none"
  /\ pipe' = "none" /\ handle' = Orphan /\ steady' = 0
  /\ UNCHANGED <<desktop, wanted, sincePoll, queue, requested, age, polled,
                 silence>>

\* The machine is suspended or the worker is asked to end: one last request
\* releases the game, and the loop turns no more.
Pause ==
  /\ desktop = "polling"
  /\ desktop' = "paused"
  /\ SetFpsTarget([wanted EXCEPT !.target = "none"]) \/ SetFpsTargetFails
  /\ silence' = 0
  /\ UNCHANGED <<wanted, sincePoll, requested, age, polled, steady>>

Unpause ==
  /\ desktop = "paused"
  /\ desktop' = "polling" /\ sincePoll' = 0 /\ steady' = 0
  /\ UNCHANGED <<wanted, pipe, queue, handle, requested, age, polled, silence>>

\* The worker ends, after its last request, or the process dies without one.
\* What was written and not read can still be read.
DesktopExit ==
  /\ desktop # "gone"
  /\ desktop' = "gone" /\ pipe' = "none" /\ handle' = Orphan
  /\ silence' = IF desktop = "paused" THEN silence ELSE 0
  /\ UNCHANGED <<wanted, sincePoll, queue, requested, age, polled, steady>>

DesktopStart ==
  /\ desktop = "gone"
  /\ desktop' = "polling" /\ wanted' \in Requests
  /\ sincePoll' = 0 /\ steady' = 0
  /\ UNCHANGED <<pipe, queue, handle, requested, age, polled, silence>>

-----------------------------------------------------------------------------
\* The service.

\* The request is renewed, or its age is held against the limit it carries.
Accept(r) == requested' = r /\ age' = 0

\* Mutant: an expired request keeps its interval.
ExpireTargetOnly ==
  /\ requested' = IF age > Limit(requested)
                    THEN [requested EXCEPT !.target = "none"] ELSE requested
  /\ UNCHANGED age

Expire ==
  /\ requested' = IF age > Limit(requested) THEN Default ELSE requested
  /\ UNCHANGED age

\* Mutant: the closed handle is kept.
CloseEndKept ==
  /\ UNCHANGED handle
  /\ pipe' = IF handle = "open" THEN "broken" ELSE pipe

\* The service closes its end; the desktop's instance notices.
CloseEnd ==
  /\ handle' = "none"
  /\ pipe' = IF handle = "open" THEN "broken" ELSE pipe

\* PollFpsControl: open the instance if it listens, and read the message if
\* there is exactly one.  The end is closed after every read, and when the
\* other end is gone.
PollFpsControl ==
  /\ \/ /\ handle = "none" /\ Expire /\ UNCHANGED queue
        /\ IF pipe = "listening" THEN pipe' = "connected" /\ handle' = "open"
                                 ELSE UNCHANGED <<pipe, handle>>
     \/ /\ handle = "open" /\ queue = <<>>
        /\ Expire /\ UNCHANGED <<pipe, queue, handle>>
     \/ /\ handle = "orphan" /\ queue = <<>>
        /\ Expire /\ CloseEnd /\ UNCHANGED queue
     \/ /\ handle # "none" /\ Len(queue) = 1
        /\ Accept(Head(queue)) /\ CloseEnd /\ queue' = <<>>
     \/ /\ handle # "none" /\ Len(queue) > 1
        /\ Expire /\ CloseEnd /\ queue' = <<>>
  /\ polled' = TRUE
  /\ UNCHANGED <<desktop, wanted, sincePoll, steady, silence>>

\* PollFpsControl when the instance opens but its server cannot be validated:
\* a query fails, or another program holds the name.  The end is closed again
\* and the desktop's instance has lost its client.
ValidationFails ==
  /\ handle = "none" /\ pipe = "listening" /\ pipe' = "broken"
  /\ Expire
  /\ polled' = TRUE /\ steady' = 0
  /\ UNCHANGED <<desktop, wanted, sincePoll, queue, handle, silence>>

\* The service stops and starts again.
ServiceRestart ==
  /\ CloseEnd
  /\ queue' = <<>> /\ requested' = Default /\ age' = SlowLimit + 1
  /\ steady' = 0
  /\ UNCHANGED <<desktop, wanted, sincePoll, polled, silence>>

-----------------------------------------------------------------------------
\* Five seconds pass; both loops have turned.
ControlTick ==
  /\ polled /\ (desktop = "polling" => sincePoll < Period(wanted))
  /\ polled' = FALSE /\ age' = Capped(age, SlowLimit + 1)
  /\ IF desktop = "polling"
       THEN /\ sincePoll' = sincePoll + 1 /\ steady' = Capped(steady, Reach)
            /\ UNCHANGED silence
       ELSE /\ silence' = Capped(silence, SlowLimit + 2)
            /\ UNCHANGED <<sincePoll, steady>>
  /\ UNCHANGED <<desktop, wanted, pipe, queue, handle, requested>>

ControlNext ==
  \/ DesktopPoll \/ CloseControl \/ Pause \/ Unpause
  \/ DesktopExit \/ DesktopStart
  \/ PollFpsControl \/ ValidationFails \/ ServiceRestart
  \/ ControlTick

ControlSpec == ControlInit /\ [][ControlNext]_controlVars

-----------------------------------------------------------------------------
ControlTypeOK ==
  /\ desktop \in {"polling", "paused", "gone"}
  /\ {wanted, requested} \subseteq Requests
  /\ sincePoll \in 0 .. SlowPeriod
  /\ pipe \in {"none", "listening", "connected", "broken", "disconnected"}
  /\ queue \in Seq(Requests) /\ Len(queue) <= 2
  /\ handle \in {"none", "open", "orphan"}
  /\ (handle = "open") = (pipe = "connected")
  /\ age \in 0 .. SlowLimit + 1 /\ polled \in BOOLEAN
  /\ steady \in 0 .. Reach /\ silence \in 0 .. SlowLimit + 2

\* A request is delivered in every second poll at best, yet a desktop that
\* keeps asking for the same thing gets it and keeps it: neither the pipe's
\* reconnections nor the expiry take it away.
SteadyRequestArrives ==
  desktop = "polling" /\ steady >= Reach => requested = wanted

\* The channel's states are of their types, and a steady request arrives.
ChannelServesDesktop == ControlTypeOK /\ SteadyRequestArrives

\* A desktop that is suspended, closed or killed does not leave the service
\* capturing a game forever, whatever it left in the pipe.
SilentDesktopExpires ==
  desktop # "polling" /\ silence > SlowLimit + 1 /\ polled
    => requested = Default
=============================================================================
