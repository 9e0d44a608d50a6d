---------------------------- MODULE ServiceMain ----------------------------
(***************************************************************************)
(* The process of the older service (main.go): NewReadService, Start, the  *)
(* server goroutine, the signal and Stop, with the handlers that run       *)
(* meanwhile, and what of their telemetry is exported.                     *)
(*                                                                         *)
(* What a query does is the module ReadService, and the configuration is   *)
(* ServiceConfig.  ServiceProcess adds the connectivity test.  A query     *)
(* that is over has left a span with the tracer provider and a count with  *)
(* the meter provider.  The OpenTelemetry SDK is external: its batch span  *)
(* processor drops spans when its queue is full, and passes the error of a *)
(* failed export to a handler, never to the caller; its periodic reader    *)
(* returns that of the last export.                                        *)
(***************************************************************************)
EXTENDS Naturals, FiniteSets

CONSTANTS
  Buckets,      \* the buckets of the configuration
  Reqs,         \* the queries of the clients
  MaxQueueSize  \* how many spans wait before the next may be dropped: 2048

ASSUME MaxQueueSizeAssumption == MaxQueueSize \in Nat

VARIABLES
  main,      \* where main is, or how the process ended
  clients,   \* the keys of the map s3Clients
  server,    \* the server goroutine
  quit,      \* whether a signal waits in the channel
  expired,   \* whether the 5 s of Stop are over
  endpoint,  \* whether the collector takes what is exported
  handler,   \* handler[q]: where the handler of q is
  tracer,    \* the tracer provider: "up", "down" or "failed"
  meter,     \* the meter provider
  spans,     \* queries whose span waits to be exported
  dropped,   \* queries whose span met a full queue or a batch that was refused
  counts,    \* queries counted as a success since the last export
  exported,  \* what the collector has: <<"span", q>> and <<"count", q>>
  answered   \* history: the queries answered before the signal was taken

telemetry == <<tracer, meter, spans, dropped, counts, exported>>
vars == <<main, clients, server, quit, expired, endpoint, handler, telemetry, answered>>

Ended == {"exited", "noService", "noClient", "killed"}
Alive == main \notin Ended

(* Before signal.Notify a signal has its default effect.                   *)
Starting == {"creating", "connecting", "testing", "launching", "started"}

Init ==
  /\ main     = "creating"
  /\ clients  = {}
  /\ server   = "off"
  /\ quit     = FALSE
  /\ expired  = FALSE
  /\ endpoint \in BOOLEAN
  /\ handler  = [q \in Reqs |-> "none"]
  /\ tracer   = "off" /\ meter = "off"
  /\ spans    = {} /\ dropped = {} /\ counts = {} /\ exported = {}
  /\ answered = {}

-----------------------------------------------------------------------------
(***************************************************************************)
(* Starting up.                                                            *)
(***************************************************************************)
(* NewReadService: both providers, or neither and the end.                 *)
Create ==
  /\ main = "creating"
  /\ \/ main' = "connecting" /\ tracer' = "up" /\ meter' = "up"
     \/ main' = "noService" /\ UNCHANGED <<tracer, meter>>
  /\ UNCHANGED <<clients, server, quit, expired, endpoint, handler, spans, dropped, counts, exported,
                 answered>>

(* Defect: the server is started first.                                    *)
ConnectServing(b) ==
  /\ main = "connecting"
  /\ b \in Buckets \ clients
  /\ clients' = clients \cup {b}
  /\ server'  = IF server = "off" THEN "starting" ELSE server
  /\ UNCHANGED <<main, quit, expired, endpoint, handler, telemetry, answered>>

(* An iteration of the loop of Start: a client for a bucket ...            *)
Connect(b) ==
  /\ main = "connecting"
  /\ b \in Buckets \ clients
  /\ clients' = clients \cup {b}
  /\ UNCHANGED <<main, server, quit, expired, endpoint, handler, telemetry, answered>>

(* ... or none, which ends Start and the process.                          *)
ConnectErr ==
  /\ main = "connecting"
  /\ clients # Buckets
  /\ main' = "noClient"
  /\ UNCHANGED <<clients, server, quit, expired, endpoint, handler, telemetry, answered>>

Connected ==
  /\ main = "connecting"
  /\ clients = Buckets
  /\ main' = "testing"
  /\ UNCHANGED <<clients, server, quit, expired, endpoint, handler, telemetry, answered>>

(* testShardConnectivity returns (ServiceProcess says when); shards that   *)
(* are down are only logged.                                               *)
Tested ==
  /\ main = "testing"
  /\ main' = "launching"
  /\ UNCHANGED <<clients, server, quit, expired, endpoint, handler, telemetry, answered>>

LaunchServer ==
  /\ main = "launching"
  /\ server' = "starting"
  /\ main'   = "started"
  /\ UNCHANGED <<clients, quit, expired, endpoint, handler, telemetry, answered>>

Notify ==
  /\ main = "started"
  /\ main' = "waiting"
  /\ UNCHANGED <<clients, server, quit, expired, endpoint, handler, telemetry, answered>>

(* startHTTPServer: if the port is taken that is logged, and no more.      *)
Listen ==
  /\ Alive
  /\ server = "starting"
  /\ server' \in {"serving", "failed"}
  /\ UNCHANGED <<main, clients, quit, expired, endpoint, handler, telemetry, answered>>

-----------------------------------------------------------------------------
(***************************************************************************)
(* Queries and their telemetry.                                            *)
(***************************************************************************)
Accept(q) ==
  /\ Alive
  /\ server = "serving"
  /\ handler[q] = "none"
  /\ handler' = [handler EXCEPT ![q] = "running"]
  /\ UNCHANGED <<main, clients, server, quit, expired, endpoint, telemetry, answered>>

(* ExecuteQuery returns: its span ends and its counters are added, and the *)
(* client gets the response.  The span is queued, or dropped when the      *)
(* queue may be full (the batch at hand is not in it); a provider that is  *)
(* shut down, or about to be, ignores it.                                  *)
Answer(q) ==
  /\ Alive
  /\ handler[q] = "running"
  /\ handler'  = [handler EXCEPT ![q] = "done"]
  /\ \/ tracer = "up" /\ spans' = spans \cup {q} /\ UNCHANGED dropped
     \/ tracer = "up" /\ Cardinality(spans) >= MaxQueueSize
        /\ dropped' = dropped \cup {q} /\ UNCHANGED spans
     \/ (tracer # "up" \/ main = "stopping") /\ UNCHANGED <<spans, dropped>>
  /\ counts'   = IF meter = "up" THEN counts \cup {q} ELSE counts
  /\ answered' = IF main \in {"stopping", "metering"} THEN answered ELSE answered \cup {q}
  /\ UNCHANGED <<main, clients, server, quit, expired, endpoint, tracer, meter, exported>>

Spans(qs)  == {"span"} \X qs
Counts(qs) == {"count"} \X qs

(* The batcher and the periodic reader export from time to time.           *)
Export ==
  /\ Alive
  /\ endpoint
  /\ \/ /\ tracer = "up" /\ spans # {}
        /\ exported' = exported \cup Spans(spans) /\ spans' = {} /\ UNCHANGED counts
     \/ /\ meter = "up" /\ counts # {}
        /\ exported' = exported \cup Counts(counts) /\ counts' = {} /\ UNCHANGED spans
  /\ UNCHANGED <<main, clients, server, quit, expired, endpoint, handler, tracer, meter,
                 dropped, answered>>

(* An export fails: counters are cumulative and wait for the next one, a   *)
(* batch of spans is lost.                                                 *)
ExportErr ==
  /\ Alive
  /\ ~endpoint
  /\ tracer = "up" /\ spans # {}
  /\ dropped' = dropped \cup spans
  /\ spans'   = {}
  /\ UNCHANGED <<main, clients, server, quit, expired, endpoint, handler, tracer, meter, counts,
                 exported, answered>>

(* The collector goes away or comes back.                                  *)
EndpointFlips ==
  /\ Alive
  /\ endpoint' = ~endpoint
  /\ UNCHANGED <<main, clients, server, quit, expired, handler, telemetry, answered>>

-----------------------------------------------------------------------------
(***************************************************************************)
(* Shutting down.                                                          *)
(***************************************************************************)
Signal ==
  /\ Alive
  /\ IF main \in Starting
       THEN main' = "killed" /\ UNCHANGED quit
       ELSE quit' = TRUE /\ UNCHANGED main
  /\ UNCHANGED <<clients, server, expired, endpoint, handler, telemetry, answered>>

(* <-quit, and Stop: s.cancel() cancels a context that no query uses, and  *)
(* nothing stops the server.                                               *)
Stop ==
  /\ main = "waiting"
  /\ quit
  /\ quit' = FALSE
  /\ main' = "stopping"
  /\ UNCHANGED <<clients, server, expired, endpoint, handler, telemetry, answered>>

(* Defect: a shutdown context without a deadline.                          *)
ExpireNever == FALSE /\ UNCHANGED vars

Expire ==
  /\ main \in {"stopping", "metering"}
  /\ ~expired
  /\ expired' = TRUE
  /\ UNCHANGED <<main, clients, server, quit, endpoint, handler, telemetry, answered>>

(* The last batch: exported, or refused, which nobody learns.              *)
LastBatch ==
  IF endpoint THEN exported' = exported \cup Spans(spans) /\ UNCHANGED dropped
  ELSE dropped' = dropped \cup spans /\ UNCHANGED exported

(* Defect: the closure forgets the meter provider.                         *)
ShutdownTracerOnly ==
  /\ main = "stopping"
  /\ LastBatch
  /\ tracer' = "down"
  /\ spans'  = {}
  /\ main'   = "exited"
  /\ UNCHANGED <<clients, server, quit, expired, endpoint, handler, meter, counts, answered>>

(* tracerProvider.Shutdown tries to export what waits and returns no       *)
(* error, whatever becomes of it ...                                       *)
ShutdownTracer ==
  /\ main = "stopping"
  /\ LastBatch
  /\ tracer' = "down"
  /\ spans'  = {}
  /\ main'   = "metering"
  /\ UNCHANGED <<clients, server, quit, expired, endpoint, handler, meter, counts, answered>>

(* ... except that of the context, when the 5 s are over before that: then *)
(* the meter provider is not shut down at all, and Stop returns.  The      *)
(* batch may have arrived nevertheless.                                    *)
ShutdownTracerErr ==
  /\ main = "stopping"
  /\ expired
  /\ tracer'   = "failed"
  /\ main'     = "exited"
  /\ exported' \in {exported, exported \cup Spans(spans)}
  /\ UNCHANGED <<clients, server, quit, expired, endpoint, handler, meter, spans, dropped, counts,
                 answered>>

(* meterProvider.Shutdown, and the end; a failed export is returned.       *)
ShutdownMeter ==
  /\ main = "metering"
  /\ endpoint /\ ~expired
  /\ meter'    = "down"
  /\ exported' = exported \cup Counts(counts)
  /\ counts'   = {}
  /\ main'     = "exited"
  /\ UNCHANGED <<clients, server, quit, expired, endpoint, handler, tracer, spans,
                 dropped, answered>>

ShutdownMeterErr ==
  /\ main = "metering"
  /\ ~endpoint \/ expired
  /\ meter' = "failed"
  /\ main'  = "exited"
  /\ UNCHANGED <<clients, server, quit, expired, endpoint, handler, tracer, spans, dropped, counts,
                 exported, answered>>

Terminated == ~Alive /\ UNCHANGED vars

-----------------------------------------------------------------------------
Main ==
  \/ Create \/ (\E b \in Buckets : Connect(b)) \/ ConnectErr \/ Connected
  \/ Tested \/ LaunchServer \/ Notify
  \/ Stop \/ ShutdownTracerErr \/ ShutdownMeterErr

Next ==
  \/ Main \/ Listen \/ Signal \/ Expire \/ ShutdownTracer \/ ShutdownMeter
  \/ \E q \in Reqs : Accept(q) \/ Answer(q)
  \/ Export \/ ExportErr \/ EndpointFlips
  \/ Terminated

Spec == Init /\ [][Next]_vars

-----------------------------------------------------------------------------
(***************************************************************************)
(* Properties.                                                             *)
(***************************************************************************)
Provider == {"off", "up", "down", "failed"}

TypeOK ==
  /\ main \in Starting \cup {"waiting", "stopping", "metering"} \cup Ended
  /\ clients \subseteq Buckets
  /\ server \in {"off", "starting", "serving", "failed"}
  /\ {quit, expired, endpoint} \subseteq BOOLEAN
  /\ handler \in [Reqs -> {"none", "running", "done"}]
  /\ tracer \in Provider /\ meter \in Provider
  /\ spans \cup dropped \cup counts \cup answered \subseteq {q \in Reqs : handler[q] = "done"}
  /\ exported \subseteq Spans(Reqs) \cup Counts(Reqs)

(* The map of clients is complete, and so no longer written, before the    *)
(* goroutine exists whose handlers read it without a lock (main.go:378-394,*)
(* 869).                                                                   *)
ClientsCompleteWhenServing == server # "off" => clients = Buckets

(* When the process exits, the span of a query that was answered before    *)
(* Stop has reached the collector unless it was dropped, of which nobody   *)
(* learns, and its count has, unless the meter provider's shutdown failed; *)
(* of neither is that so if the tracer provider's shutdown ran out of time *)
(* (main.go:265-273, 409-413).                                             *)
AnsweredIsExported ==
  main = "exited" /\ tracer # "failed" =>
    /\ Spans(answered \ dropped) \subseteq exported
    /\ meter # "failed" => Counts(answered) \subseteq exported

(* A collector that does not answer does not keep the process from ending, *)
(* nor does a query that runs (main.go:401-417).                           *)
StopEnds == quit ~> ~Alive
=============================================================================
