----------------------------- MODULE MCMessages -----------------------------
(* The way of a message through one process, in four parts that share no
   state: the engine that reads the sessions, the way out of a session, the
   invocation of a handler with its reply, and the bytes and headers of a
   connection with the traces they carry.  A behaviour runs one of them and
   leaves the others alone. *)
EXTENDS Engine, Outbound, Invocation, Wire

VARIABLE part

\* One event for every type of slot, and a slot_builder with and without
\* middlewares.
MCEvents == {"enqueue", "emit", "connect", "read", "routing"}
MCKind == [e \in MCEvents |->
             CASE e = "enqueue" -> "blocking" [] e = "emit" -> "mute"
               [] e = "connect" -> "generic" [] e = "read" -> "deferred"
               [] e = "routing" -> "streamed"]
MCMiddlewares == {<<>>, <<"auth", "drop_headers", "audit">>}

\* Three connections: one of this program, one of a far end that compresses
\* its headers, one with frames larger than the ring that may break off.
MCLength(s) ==
  CASE s = "half" -> 2011 [] s = "rest" -> 2012 [] s = "big" -> 4060
    [] OTHER -> IF s \in {"GET", "x"} THEN 3 ELSE 5

MCPeerHeaders == [s \in {"cocaine", "compressing", "bulky"} |->
  CASE s = "cocaine" -> {}
    [] s = "compressing" ->
       {Header("token", Text("half")), Header("token", Text("rest")), Header("token", Text("big"))}
    [] s = "bulky" -> {Header(":method", Text("GET"))}]

MCFrameSize == [s \in {"cocaine", "compressing", "bulky"} |->
  CASE s = "cocaine" -> <<1>> [] s = "compressing" -> <<1, 1, 1>> [] s = "bulky" -> <<2, 5, 1>>]

MCIncoming == {<<>>, <<1, 1, 0>>}

Parts == {"engine", "outbound", "invocation", "wire"}

Init ==
  /\ part \in Parts
  /\ EngineInit /\ OutboundInit /\ InvocationInit /\ WireInit
  /\ part # "wire" => sender = "cocaine"

Next ==
  \/ part = "engine" /\ EngineNext /\ UNCHANGED <<part, outboundVars, invocationVars, wireVars>>
  \/ part = "outbound" /\ OutboundNext /\ UNCHANGED <<part, engineVars, invocationVars, wireVars>>
  \/ part = "invocation" /\ InvocationNext /\ UNCHANGED <<part, engineVars, outboundVars, wireVars>>
  \/ part = "wire" /\ WireNext /\ UNCHANGED <<part, engineVars, outboundVars, invocationVars>>

messagesVars == <<part, engineVars, outboundVars, invocationVars, wireVars>>

\* The fairness of each part, where that part runs.
FairSpec ==
  /\ Init /\ [][Next]_messagesVars
  /\ WF_engineVars(part = "engine" /\ RunHandler) /\ WF_engineVars(part = "engine" /\ CronExpires)
  /\ WF_engineVars(part = "engine" /\ StatsExpires) /\ WF_engineVars(part = "engine" /\ Cancel)
  /\ WF_engineVars(part = "engine" /\ Join)
  /\ WF_outboundVars(part = "outbound" /\ (RunPushed \/ RunDone))
  /\ WF_outboundVars(part = "outbound" /\ (Flush \/ FlushError \/ FlushAborted))
  /\ \A c \in Calls : WF_invocationVars(part = "invocation" /\ Engine(c))
  /\ WF_wireVars(part = "wire" /\ Receives) /\ WF_wireVars(part = "wire" /\ Finalizes)
=============================================================================
