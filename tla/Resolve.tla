------------------------------ MODULE Resolve -------------------------------
(***************************************************************************)
(* One `resolve` run (resolve.rs): the servers are tried in order; all     *)
(* names still unsettled are queried concurrently over one connection,     *)
(* each with its own attempts; a deadline may drop the whole computation   *)
(* at any await.  What is left unsettled is reported as transient.         *)
(*                                                                         *)
(* What a server says is abstracted to how classify() ranks it: "ok" and   *)
(* "empty" settle the name, "transient" is worth asking again (SERVFAIL,   *)
(* timeout, truncated), "permanent" is not (no AD bit, non-global address).*)
(***************************************************************************)
EXTENDS Integers, FiniteSets

CONSTANTS
    Names,      \* the configured endpoints
    Servers,    \* how many resolver addresses are configured
    Attempts    \* resolver.attempts

ASSUME ServersAssumption == Servers \in Nat \ {0}
ASSUME AttemptsAssumption == Attempts \in Nat \ {0}

VARIABLES
    phase,      \* where resolve_servers stands
    server,     \* index of the server in use
    results,    \* name -> its settled result
    query,      \* name -> the state of its future on this server
    attempt,    \* name -> attempts made on this server
    answers,    \* name -> the outcome written to answers.json
    heard,      \* history: usable answers that arrived for each name
    sent,       \* history: queries sent, per name and server
    rejected,   \* history: <<name, server>> that ended in "permanent"
    refused,    \* history: servers that could not be connected to
    cut         \* history: the deadline fired, or there was no TLS setup

run == <<phase, server>>
futures == <<query, attempt>>
history == <<heard, sent, rejected, refused, cut>>
vars == <<run, results, futures, answers, history>>

Unsettled == [outcome |-> "none", server |-> 0]

Settled == [outcome : {"ok", "empty"}, server : 1 .. Servers]

Pending == {n \in Names : results[n] = Unsettled}

(* Every variable holds a value of its kind.                               *)
TypeOK ==
    /\ phase \in {"tls", "server", "connect", "query", "end", "done"}
    /\ server \in 1 .. Servers + 1
    /\ results \in [Names -> Settled \cup {Unsettled}]
    /\ query \in [Names -> {"off", "asking", "sleeping"}]
    /\ attempt \in [Names -> 0 .. Attempts]
    /\ answers \in [Names -> {"none", "ok", "empty", "transient"}]
    /\ heard \in [Names -> SUBSET Settled]
    /\ sent \in [Names -> [1 .. Servers -> 0 .. Attempts]]
    /\ rejected \subseteq Names \X (1 .. Servers)
    /\ refused \subseteq 1 .. Servers
    /\ cut \in BOOLEAN

Init ==
    /\ phase = "tls"
    /\ server = 1
    /\ results = [n \in Names |-> Unsettled]
    /\ query = [n \in Names |-> "off"]
    /\ attempt = [n \in Names |-> 0]
    /\ answers = [n \in Names |-> "none"]
    /\ heard = [n \in Names |-> {}]
    /\ sent = [n \in Names |-> [s \in 1 .. Servers |-> 0]]
    /\ rejected = {}
    /\ refused = {}
    /\ cut = FALSE

-----------------------------------------------------------------------------

(* tls_config: without CA certificates no server is tried.                 *)
Tls ==
    /\ phase = "tls"
    /\ \/ phase' = "server" /\ cut' = cut
       \/ phase' = "end" /\ cut' = TRUE
    /\ UNCHANGED <<server, results, futures, answers, heard, sent, rejected, refused>>

(* The head of the loop over the servers.                                  *)
NextServer ==
    /\ phase = "server"
    /\ phase' = IF server > Servers \/ Pending = {} THEN "end" ELSE "connect"
    /\ UNCHANGED <<server, results, futures, answers, history>>

(* Mutant: an unreachable server ends the loop.                            *)
ConnectFails_Breaks ==
    /\ phase = "connect"
    /\ phase' = "end"
    /\ refused' = refused \cup {server}
    /\ UNCHANGED <<server, results, futures, answers, heard, sent, rejected, cut>>

(* Bad name, timeout or TLS failure: on to the next server.                *)
ConnectFails ==
    /\ phase = "connect"
    /\ phase' = "server"
    /\ server' = server + 1
    /\ refused' = refused \cup {server}
    /\ UNCHANGED <<results, futures, answers, heard, sent, rejected, cut>>

Sent(n) == [sent EXCEPT ![n][server] = @ + 1]

(* Connected: one future per pending name, each sending its first query.   *)
Connect ==
    /\ phase = "connect"
    /\ phase' = "query"
    /\ query' = [n \in Names |-> IF n \in Pending THEN "asking" ELSE "off"]
    /\ attempt' = [n \in Names |-> IF n \in Pending THEN 1 ELSE 0]
    /\ sent' = [n \in Names |->
                   IF n \in Pending THEN [sent[n] EXCEPT ![server] = @ + 1] ELSE sent[n]]
    /\ UNCHANGED <<server, results, answers, heard, rejected, refused, cut>>

(* A usable answer: resolve_name returns and settle records the result in  *)
(* the same poll, so no deadline can come in between.                      *)
Settle(n) ==
    /\ phase = "query"
    /\ query[n] = "asking"
    /\ \E outcome \in {"ok", "empty"} :
          LET r == [outcome |-> outcome, server |-> server]
          IN  /\ results' = [results EXCEPT ![n] = r]
              /\ heard' = [heard EXCEPT ![n] = @ \cup {r}]
    /\ query' = [query EXCEPT ![n] = "off"]
    /\ UNCHANGED <<run, attempt, answers, sent, rejected, refused, cut>>

(* Mutant: a deterministic rejection is asked again.                       *)
Reject_Retries(n) ==
    /\ phase = "query"
    /\ query[n] = "asking"
    /\ query' = [query EXCEPT ![n] = IF attempt[n] < Attempts THEN "sleeping" ELSE "off"]
    /\ rejected' = rejected \cup {<<n, server>>}
    /\ UNCHANGED <<run, results, attempt, answers, heard, sent, refused, cut>>

(* A deterministic rejection: the name is given up on this server.         *)
Reject(n) ==
    /\ phase = "query"
    /\ query[n] = "asking"
    /\ query' = [query EXCEPT ![n] = "off"]
    /\ rejected' = rejected \cup {<<n, server>>}
    /\ UNCHANGED <<run, results, attempt, answers, heard, sent, refused, cut>>

(* A retryable failure: sleep before the next attempt, if there is one.    *)
Fail(n) ==
    /\ phase = "query"
    /\ query[n] = "asking"
    /\ query' = [query EXCEPT ![n] = IF attempt[n] < Attempts THEN "sleeping" ELSE "off"]
    /\ UNCHANGED <<run, results, attempt, answers, history>>

(* Mutant: the attempt is not counted.                                     *)
Wake_NotCounted(n) ==
    /\ phase = "query"
    /\ query[n] = "sleeping"
    /\ query' = [query EXCEPT ![n] = "asking"]
    /\ UNCHANGED <<run, results, attempt, answers, history>>

Wake(n) ==
    /\ phase = "query"
    /\ query[n] = "sleeping"
    /\ query' = [query EXCEPT ![n] = "asking"]
    /\ attempt' = [attempt EXCEPT ![n] = @ + 1]
    /\ sent' = Sent(n)
    /\ UNCHANGED <<run, results, answers, heard, rejected, refused, cut>>

(* The stream of futures is exhausted.                                     *)
ServerDone ==
    /\ phase = "query"
    /\ \A n \in Names : query[n] = "off"
    /\ phase' = "server"
    /\ server' = server + 1
    /\ UNCHANGED <<results, futures, answers, history>>

(* Mutant: the results die with the computation that was dropped.          *)
Deadline_Discards ==
    /\ phase \in {"connect", "query"}
    /\ phase' = "end"
    /\ query' = [n \in Names |-> "off"]
    /\ results' = [n \in Names |-> Unsettled]
    /\ cut' = TRUE
    /\ UNCHANGED <<server, attempt, answers, heard, sent, rejected, refused>>

(* tokio::time::timeout drops the computation at an await, with every      *)
(* future in it; what settle recorded is owned by resolve_all.             *)
Deadline ==
    /\ phase \in {"connect", "query"}
    /\ phase' = "end"
    /\ query' = [n \in Names |-> "off"]
    /\ cut' = TRUE
    /\ UNCHANGED <<server, results, attempt, answers, heard, sent, rejected, refused>>

(* The end of resolve_all: unsettled names are reported as transient.      *)
Finish ==
    /\ phase = "end"
    /\ phase' = "done"
    /\ answers' = [n \in Names |->
                      IF n \in Pending THEN "transient" ELSE results[n].outcome]
    /\ UNCHANGED <<server, results, futures, history>>

Future(n) == Settle(n) \/ Reject(n) \/ Fail(n) \/ Wake(n)

Next == \/ Tls \/ NextServer \/ Connect \/ ConnectFails
        \/ \E n \in Names : Future(n)
        \/ ServerDone \/ Deadline \/ Finish

Spec == Init /\ [][Next]_vars

(* Every await ends: connecting and each query have a timeout, and the     *)
(* pause between attempts is one second.  Nothing is asked of Deadline.    *)
Fairness == /\ WF_vars(Tls \/ NextServer \/ Connect \/ ConnectFails \/ ServerDone \/ Finish)
            /\ \A n \in Names : WF_vars(Future(n))

FairSpec == Spec /\ Fairness

-----------------------------------------------------------------------------

(* Whenever the deadline fires, the file holds for each name exactly the   *)
(* one usable answer that ever arrived for it, and "transient" only if     *)
(* none did: no answer is discarded, and none is asked for twice           *)
(* (resolve_all, settle).                                                  *)
NothingLost ==
    phase = "done" => \A n \in Names :
        \/ answers[n] = "transient" /\ heard[n] = {}
        \/ \E r \in Settled : heard[n] = {r} /\ answers[n] = r.outcome

(* Unless the run was cut short, a name is reported as transient only      *)
(* after every server refused the connection, rejected the name, or failed *)
(* it on each of its attempts (resolve_servers, resolve_name).             *)
TransientIsExhaustive ==
    phase = "done" /\ ~cut => \A n \in Names : answers[n] = "transient" =>
        \A s \in 1 .. Servers : \/ s \in refused
                                \/ <<n, s>> \in rejected
                                \/ sent[n][s] = Attempts

(* No name is queried on a server that has rejected it, nor anywhere once  *)
(* it is settled, and never more than the configured number of times       *)
(* (resolve_name, the pending list of resolve_servers).                    *)
NoNeedlessQuery ==
    [][\A n \in Names, s \in 1 .. Servers : sent'[n][s] # sent[n][s] =>
          /\ <<n, s>> \notin rejected
          /\ heard[n] = {}
          /\ sent'[n][s] <= Attempts]_vars

(* The run ends by itself even if the deadline never fires: a name that    *)
(* keeps failing does not keep the others' answers from being written.     *)
Terminates == <>(phase = "done")

=============================================================================
