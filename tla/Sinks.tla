-------------------------------- MODULE Sinks --------------------------------
(***************************************************************************)
(* Where a run's events go besides the event log: to Langfuse in batches   *)
(* ("observ", src/src/observ.rs), and as notifications one by one          *)
(* ("notify", src/src/notify.rs).  Both have a bounded channel that never  *)
(* blocks the run and a flusher thread, and a limit on how long the end of *)
(* the run waits for it: the one joins the thread, the other leaves it.    *)
(*                                                                         *)
(* Which events are sent, and as what, is left out; a POST that fails is   *)
(* counted and not repeated.                                               *)
(***************************************************************************)
EXTENDS Naturals, Sequences

CONSTANTS Events,     \* bound: events emitted
          ChannelCap, \* CHANNEL_CAP
          BatchSize   \* BATCH_SIZE of observ.rs

ASSUME SinksAssumption ==
    /\ Events \in Nat /\ ChannelCap \in Nat \ {0} /\ BatchSize \in Nat \ {0}

VARIABLES sink,      \* which of the two
          emitted,   \* events so far
          accepted,  \* history: those that the channel had room for, in order
          channel,   \* what is in it
          batch,     \* what the flusher has in hand
          posted,    \* history: what was in a POST, successful or not
          flusher,   \* where the flusher is
          host,      \* the run, and the wait at its end
          late       \* the limit of that wait has passed

sinkVars == <<sink, emitted, accepted, channel, batch, posted, flusher, host, late>>

SinksTypeOK ==
    /\ sink \in {"observ", "notify"} /\ emitted \in 0..Events
    /\ {accepted, channel, batch, posted} \subseteq Seq(1..Events)
    /\ Len(channel) <= ChannelCap /\ Len(batch) <= BatchSize
    /\ flusher \in {"off", "waits", "recv", "post", "drain", "drainPost", "lastPost", "over"}
    /\ host \in {"off", "runs", "closing", "over"} /\ late \in BOOLEAN

SinksInit ==
    /\ sink = "observ" /\ emitted = 0 /\ accepted = <<>> /\ channel = <<>>
    /\ batch = <<>> /\ posted = <<>> /\ flusher = "off" /\ host = "off" /\ late = FALSE

\* The run starts, with its flusher.
StartSink ==
    /\ host = "off" /\ host' = "runs" /\ flusher' = "waits" /\ sink' \in {"observ", "notify"}
    /\ UNCHANGED <<emitted, accepted, channel, batch, posted, late>>

\* try_send: a full channel drops the event.
Emit ==
    /\ host = "runs" /\ emitted < Events /\ emitted' = emitted + 1
    /\ LET fits == Len(channel) < ChannelCap
       IN  /\ channel'  = IF fits THEN Append(channel, emitted') ELSE channel
           /\ accepted' = IF fits THEN Append(accepted, emitted') ELSE accepted
    /\ UNCHANGED <<sink, batch, posted, flusher, host, late>>

\* shutdown, Drop: `closing' is set and the channel disconnected.
Shutdown ==
    /\ host = "runs" /\ host' = "closing"
    /\ UNCHANGED <<sink, emitted, accepted, channel, batch, posted, flusher, late>>

-----------------------------------------------------------------------------
(* The flusher.  It ends with the process.                                 *)

Flushes(from) == flusher = from /\ host # "over" /\ UNCHANGED <<sink, emitted, accepted, host, late>>
Size == IF sink = "observ" THEN BatchSize ELSE 1

Takes(full, more) ==
    /\ channel # <<>> /\ channel' = Tail(channel) /\ batch' = Append(batch, Head(channel))
    /\ flusher' = IF Len(batch') >= Size THEN full ELSE more
    /\ UNCHANGED posted

\* observ.rs asks before each wait whether the run is ending.
Looks ==
    /\ Flushes("waits") /\ UNCHANGED <<channel, batch, posted>>
    /\ flusher' = IF sink = "observ" /\ host = "closing" THEN "drain" ELSE "recv"

Recv == Flushes("recv") /\ Takes("post", "waits")

Interval ==
    /\ Flushes("recv") /\ batch # <<>> /\ flusher' = "post" /\ UNCHANGED <<channel, batch, posted>>

\* Slip: what is in hand is not part of the drain.
Disconnected_Empty ==
    /\ Flushes("recv") /\ host = "closing" /\ channel = <<>> /\ UNCHANGED <<channel, posted>>
    /\ flusher' = (IF sink = "observ" THEN "drain" ELSE "over") /\ batch' = <<>>

Disconnected ==
    /\ Flushes("recv") /\ host = "closing" /\ channel = <<>> /\ UNCHANGED <<channel, batch, posted>>
    /\ flusher' = IF sink = "observ" THEN "drain" ELSE "over"

Sends(from, to) ==
    /\ Flushes(from) /\ posted' = posted \o batch /\ batch' = <<>> /\ flusher' = to
    /\ UNCHANGED channel

PostEnds == Sends("post", "waits") \/ Sends("drainPost", "drain") \/ Sends("lastPost", "over")

\* drain_and_exit, flush_within: too late for a batch is too late for what is
\* still in the channel, of which nobody keeps count.
Drain ==
    /\ Flushes("drain")
    /\ \/ Takes("drainPost", "drain") /\ (late => flusher' = "drain")
       \/ /\ late /\ channel # <<>> /\ Len(batch) + 1 >= Size
          /\ channel' = Tail(channel) /\ batch' = <<>> /\ flusher' = "over" /\ UNCHANGED posted
       \/ /\ channel = <<>> /\ UNCHANGED <<channel, posted>>
          /\ flusher' = IF late \/ batch = <<>> THEN "over" ELSE "lastPost"
          /\ batch' = IF late THEN <<>> ELSE batch

Expires ==
    /\ host = "closing" /\ ~late /\ late' = TRUE
    /\ sink = "observ" => flusher \in {"drain", "drainPost", "lastPost"}
    /\ UNCHANGED <<sink, emitted, accepted, channel, batch, posted, flusher, host>>

\* Slip: a notification is waited for.
HostExits_Joins ==
    /\ host = "closing" /\ flusher = "over" /\ host' = "over"
    /\ UNCHANGED <<sink, emitted, accepted, channel, batch, posted, flusher, late>>

\* The flusher has ended; or, with notifications, there is no more time.
HostExits ==
    /\ host = "closing" /\ (flusher = "over" \/ (sink = "notify" /\ late))
    /\ host' = "over"
    /\ UNCHANGED <<sink, emitted, accepted, channel, batch, posted, flusher, late>>

-----------------------------------------------------------------------------
FlusherStep == Looks \/ Recv \/ Interval \/ Disconnected \/ Drain
SinksNext   == StartSink \/ Emit \/ Shutdown \/ FlusherStep \/ PostEnds \/ Expires \/ HostExits

\* A POST has a time limit; a notifier may hang for ever.
SinksFair ==
    /\ WF_sinkVars(FlusherStep) /\ WF_sinkVars(HostExits) /\ WF_sinkVars(Expires)
    /\ WF_sinkVars(sink = "observ" /\ PostEnds)

SinksSpec == SinksInit /\ [][SinksNext]_sinkVars /\ SinksFair

-----------------------------------------------------------------------------
(* Properties.                                                             *)

\* Every event that was accepted is sent exactly once, in order: the last ones
\* too, which say how the run ended, unless the end of the run could not wait.
FlushedInOrder ==
    ~late => /\ posted \o batch \o channel = accepted
             /\ host = "over" => posted = accepted

\* The end of the run is not held up by an endpoint or a notifier that hangs.
ExitNotStalled == (host = "closing") ~> (host = "over")
=============================================================================
