---------------------------- MODULE ResolveProofs ----------------------------
(***************************************************************************)
(* Resolve, for any names, any number of servers and any number of         *)
(* attempts.  The invariant books, for each name, what its future may be   *)
(* doing, what was sent on its behalf, and which servers are used up.      *)
(***************************************************************************)
EXTENDS Resolve, TLAPS

Running == phase \in {"tls", "server", "connect", "query"}

(* A server is in use only while there is one, and futures live only while *)
(* it is queried.                                                          *)
Control == /\ phase \in {"connect", "query"} => server <= Servers
           /\ phase # "query" => \A n \in Names : query[n] = "off"

(* The result of n is the one usable answer that arrived, and the file     *)
(* says so.                                                                *)
Kept(n) ==
    /\ results[n] = Unsettled => heard[n] = {}
    /\ results[n] # Unsettled => heard[n] = {results[n]}
    /\ phase = "done" =>
          answers[n] = IF results[n] = Unsettled THEN "transient" ELSE results[n].outcome

(* A living future belongs to an unsettled name that the server has not    *)
(* rejected, and counts its queries; no later server has seen the name.    *)
Counted(n) ==
    /\ query[n] # "off" => /\ results[n] = Unsettled
                           /\ <<n, server>> \notin rejected
                           /\ sent[n][server] = attempt[n]
    /\ query[n] = "sleeping" => attempt[n] < Attempts
    /\ Running => \A s \in 1 .. Servers :
          s > server \/ (s = server /\ phase # "query") =>
              sent[n][s] = 0 /\ <<n, s>> \notin rejected

UsedUp(n, s) == s \in refused \/ <<n, s>> \in rejected \/ sent[n][s] = Attempts

(* The servers before this one are used up for an unsettled name, this one *)
(* too once its future has ended, and all of them at the end.              *)
Exhausted(n) ==
    ~cut /\ results[n] = Unsettled =>
        \A s \in 1 .. Servers :
            \/ UsedUp(n, s)
            \/ Running /\ s > server
            \/ Running /\ s = server /\ (phase = "query" => query[n] # "off")

Books(n) == Kept(n) /\ Counted(n) /\ Exhausted(n)

IInv == TypeOK /\ Control /\ \A n \in Names : Books(n)

-----------------------------------------------------------------------------

(* Nothing is sent yet, and the books are empty.                           *)
LEMMA InitIInv == Init => IInv
  <1> SUFFICES ASSUME Init PROVE IInv
    OBVIOUS
  <1> USE ServersAssumption, AttemptsAssumption
  <1>1. TypeOK
    <2>1. sent \in [Names -> [1 .. Servers -> 0 .. Attempts]]
      BY DEF Init
    <2>2. heard \in [Names -> SUBSET Settled]
      BY DEF Init
    <2>3. rejected \subseteq Names \X (1 .. Servers) /\ refused \subseteq 1 .. Servers /\ cut \in BOOLEAN
      BY Zenon DEF Init
    <2>4. results \in [Names -> Settled \cup {Unsettled}]
      BY DEF Init
    <2> QED
      BY <2>1, <2>2, <2>3, <2>4 DEF Init, TypeOK
  <1>2. Control
    BY DEF Init, Control
  <1>3. ASSUME NEW n \in Names PROVE Books(n)
    BY <1>3 DEF Init, Books, Kept, Counted, Exhausted, UsedUp, Running
  <1> QED
    BY <1>1, <1>2, <1>3 DEF IInv

(* Every step keeps the types and the control state.                       *)
LEMMA NextTypes == IInv /\ [Next]_vars => TypeOK' /\ Control'
  <1> SUFFICES ASSUME IInv, [Next]_vars PROVE TypeOK' /\ Control'
    OBVIOUS
  <1> USE ServersAssumption, AttemptsAssumption
  <1>1. TypeOK /\ Control /\ \A n \in Names : Counted(n)
    BY DEF IInv, Books
  <1>2. CASE Tls
    BY <1>1, <1>2 DEF Tls, TypeOK, Control, futures
  <1>3. CASE NextServer
    BY <1>1, <1>3 DEF NextServer, TypeOK, Control, futures, history
  <1>4. CASE ConnectFails
    BY <1>1, <1>4 DEF ConnectFails, TypeOK, Control, futures
  <1>5. CASE Connect
    <2>1. server \in 1 .. Servers
      BY <1>1, <1>5 DEF Connect, TypeOK, Control
    <2>2. \A n \in Names : sent[n][server] = 0
      BY <1>1, <1>5, <2>1 DEF Connect, Counted, Running
    <2>3. sent' \in [Names -> [1 .. Servers -> 0 .. Attempts]]
      BY <1>1, <1>5, <2>1, <2>2 DEF Connect, TypeOK
    <2>4. Control'
      BY <1>5, <2>1 DEF Connect, Control
    <2>5. query' \in [Names -> {"off", "asking", "sleeping"}] /\ attempt' \in [Names -> 0 .. Attempts]
      BY <1>5 DEF Connect
    <2> QED
      BY <1>1, <1>5, <2>3, <2>4, <2>5 DEF Connect, TypeOK
  <1>6. ASSUME NEW n \in Names, Settle(n) PROVE TypeOK' /\ Control'
    <2>1. server \in 1 .. Servers
      BY <1>1, <1>6 DEF Settle, TypeOK, Control
    <2>2. PICK r \in Settled : /\ results' = [results EXCEPT ![n] = r]
                              /\ heard' = [heard EXCEPT ![n] = @ \cup {r}]
      BY <1>6, <2>1 DEF Settle, Settled
    <2>3. heard' \in [Names -> SUBSET Settled]
      BY <1>1, <2>2 DEF TypeOK
    <2> QED
      BY <1>1, <1>6, <2>2, <2>3 DEF Settle, TypeOK, Control, run
  <1>7. ASSUME NEW n \in Names, Reject(n) PROVE TypeOK' /\ Control'
    BY <1>1, <1>7 DEF Reject, TypeOK, Control, run
  <1>8. ASSUME NEW n \in Names, Fail(n) PROVE TypeOK' /\ Control'
    BY <1>1, <1>8 DEF Fail, TypeOK, Control, run, history
  <1>9. ASSUME NEW n \in Names, Wake(n) PROVE TypeOK' /\ Control'
    <2>1. phase = "query" /\ query[n] = "sleeping"
      BY <1>9 DEF Wake
    <2>2. server \in 1 .. Servers
      BY <1>1, <2>1 DEF TypeOK, Control
    <2>3. attempt[n] < Attempts /\ sent[n][server] = attempt[n]
      BY <1>1, <2>1 DEF Counted
    <2>4. attempt[n] \in 0 .. Attempts /\ attempt[n] + 1 \in 0 .. Attempts
      BY <1>1, <2>3 DEF TypeOK
    <2>5. sent' \in [Names -> [1 .. Servers -> 0 .. Attempts]]
      BY <1>1, <1>9, <2>2, <2>3, <2>4 DEF Wake, Sent, TypeOK
    <2>6. attempt' \in [Names -> 0 .. Attempts]
      BY <1>1, <1>9, <2>4 DEF Wake, TypeOK
    <2>7. phase' = phase /\ server' = server
      BY <1>9 DEF Wake, run
    <2>8. query' \in [Names -> {"off", "asking", "sleeping"}]
      BY <1>1, <1>9 DEF Wake, TypeOK
    <2>9. TypeOK'
      BY <1>1, <1>9, <2>5, <2>6, <2>7, <2>8 DEF Wake, TypeOK
    <2>10. Control'
      BY <1>1, <2>1, <2>7 DEF Control
    <2> QED
      BY <2>9, <2>10
  <1>10. CASE ServerDone
    BY <1>1, <1>10 DEF ServerDone, TypeOK, Control, futures, history
  <1>11. CASE Deadline
    BY <1>1, <1>11 DEF Deadline, TypeOK, Control
  <1>12. CASE Finish
    BY <1>1, <1>12 DEF Finish, TypeOK, Control, futures, history, Pending, Settled
  <1>13. CASE UNCHANGED vars
    BY <1>1, <1>13 DEF vars, run, futures, history, TypeOK, Control
  <1> QED
    BY <1>2, <1>3, <1>4, <1>5, <1>6, <1>7, <1>8, <1>9, <1>10, <1>11, <1>12, <1>13
    DEF Next, Future

(* Every step keeps the books of every name m.                             *)
LEMMA NextBooks ==
    ASSUME IInv, [Next]_vars, NEW m \in Names
    PROVE  Books(m)'
  <1> USE ServersAssumption, AttemptsAssumption
  <1> USE DEF Books, Kept, Counted, Exhausted, UsedUp, Running
  <1>1. TypeOK /\ Control /\ Books(m)
    BY DEF IInv
  <1>2. CASE Tls
    BY <1>1, <1>2 DEF Tls, futures
  <1>3. CASE NextServer
    BY <1>1, <1>3 DEF NextServer, TypeOK, Control, futures, history, Pending
  <1>4. CASE ConnectFails
    BY <1>1, <1>4 DEF ConnectFails, TypeOK, Control, futures
  <1>5. CASE Connect
    BY <1>1, <1>5 DEF Connect, TypeOK, Control, Pending
  <1>6. ASSUME NEW n \in Names, Settle(n) PROVE Books(m)'
    BY <1>1, <1>6 DEF Settle, TypeOK, Control, Unsettled, run
  <1>7. ASSUME NEW n \in Names, Reject(n) PROVE Books(m)'
    BY <1>1, <1>7 DEF Reject, TypeOK, Control, run
  <1>8. ASSUME NEW n \in Names, Fail(n) PROVE Books(m)'
    BY <1>1, <1>8 DEF Fail, TypeOK, Control, run, history
  <1>9. ASSUME NEW n \in Names, Wake(n) PROVE Books(m)'
    BY <1>1, <1>9 DEF Wake, Sent, TypeOK, Control, run
  <1>10. CASE ServerDone
    BY <1>1, <1>10 DEF ServerDone, TypeOK, Control, futures, history
  <1>11. CASE Deadline
    BY <1>1, <1>11 DEF Deadline, TypeOK, Control
  <1>12. CASE Finish
    BY <1>1, <1>12 DEF Finish, TypeOK, Control, futures, history, Pending
  <1>13. CASE UNCHANGED vars
    BY <1>1, <1>13 DEF vars, run, futures, history
  <1> QED
    BY <1>2, <1>3, <1>4, <1>5, <1>6, <1>7, <1>8, <1>9, <1>10, <1>11, <1>12, <1>13
    DEF Next, Future

(* IInv is inductive.                                                      *)
LEMMA Invariance == Spec => []IInv
  <1>1. IInv /\ [Next]_vars => IInv'
    BY NextTypes, NextBooks DEF IInv
  <1> QED
    BY InitIInv, <1>1, PTL DEF Spec

-----------------------------------------------------------------------------

(* Every variable of a resolve run keeps its type; in particular no name   *)
(* is queried more often than resolver.attempts on any server.             *)
THEOREM TypeCorrect == Spec => []TypeOK
  <1>1. IInv => TypeOK
    BY DEF IInv
  <1> QED
    BY Invariance, <1>1, PTL

(* At whichever await the deadline fires, answers.json holds exactly the   *)
(* usable answers that arrived (resolve_all, settle).                      *)
THEOREM NothingLostThm == Spec => []NothingLost
  <1>1. ASSUME IInv, phase = "done", NEW n \in Names
        PROVE  \/ answers[n] = "transient" /\ heard[n] = {}
               \/ \E r \in Settled : heard[n] = {r} /\ answers[n] = r.outcome
    BY <1>1 DEF IInv, TypeOK, Books, Kept
  <1>2. IInv => NothingLost
    BY <1>1 DEF NothingLost
  <1> QED
    BY Invariance, <1>2, PTL

(* A name of a run that was not cut short is transient only if every       *)
(* server is used up for it (resolve_servers, resolve_name).               *)
THEOREM TransientIsExhaustiveThm == Spec => []TransientIsExhaustive
  <1>1. ASSUME IInv, phase = "done", ~cut, NEW n \in Names, answers[n] = "transient",
               NEW s \in 1 .. Servers
        PROVE  s \in refused \/ <<n, s>> \in rejected \/ sent[n][s] = Attempts
    <2>1. results[n] = Unsettled
      BY <1>1 DEF IInv, TypeOK, Books, Kept, Settled
    <2> QED
      BY <1>1, <2>1 DEF IInv, Books, Exhausted, UsedUp, Running
  <1>2. IInv => TransientIsExhaustive
    BY <1>1 DEF TransientIsExhaustive
  <1> QED
    BY Invariance, <1>2, PTL

(* No step sends a query for a name that is settled, to a server that      *)
(* rejected it, or beyond its attempts (resolve_name, resolve_servers).    *)
THEOREM NoNeedlessQueryThm == Spec => NoNeedlessQuery
  <1> DEFINE Needed == \A n \in Names, s \in 1 .. Servers : sent'[n][s] # sent[n][s] =>
                          /\ <<n, s>> \notin rejected
                          /\ heard[n] = {}
                          /\ sent'[n][s] <= Attempts
  <1> USE ServersAssumption, AttemptsAssumption
  <1>1. ASSUME IInv, Next PROVE Needed
    <2>1. TypeOK /\ Control /\ \A n \in Names : Kept(n) /\ Counted(n)
      BY <1>1 DEF IInv, Books
    <2>2. TypeOK'
      BY <1>1, NextTypes
    <2>3. CASE Connect
      <3>1. \A n \in Names, s \in 1 .. Servers : sent'[n][s] # sent[n][s] =>
                n \in Pending /\ s = server
        BY <2>1, <2>3 DEF Connect, TypeOK
      <3> QED
        BY <2>1, <2>2, <2>3, <3>1 DEF Connect, TypeOK, Kept, Counted, Running, Pending
    <2>4. ASSUME NEW m \in Names, Wake(m) PROVE Needed
      <3>1. \A n \in Names, s \in 1 .. Servers : sent'[n][s] # sent[n][s] =>
                n = m /\ s = server
        BY <2>1, <2>4 DEF Wake, Sent, TypeOK
      <3>2. query[m] = "sleeping"
        BY <2>4 DEF Wake
      <3>3. results[m] = Unsettled /\ <<m, server>> \notin rejected
        BY <2>1, <3>2 DEF Counted
      <3>4. heard[m] = {}
        BY <2>1, <3>3 DEF Kept
      <3>5. \A n \in Names, s \in 1 .. Servers : sent'[n][s] <= Attempts
        BY <2>2 DEF TypeOK
      <3> QED
        BY <3>1, <3>3, <3>4, <3>5
    <2>5. CASE sent' = sent
      BY <2>5
    <2>6. Connect \/ (\E m \in Names : Wake(m)) \/ sent' = sent
      BY <1>1 DEF Next, Future, Tls, NextServer, ConnectFails, Settle, Reject, Fail,
                  ServerDone, Deadline, Finish, history
    <2> QED
      BY <2>3, <2>4, <2>5, <2>6
  <1>2. IInv /\ [Next]_vars => [Needed]_vars
    BY <1>1
  <1> QED
    BY Invariance, <1>2, PTL DEF Spec, NoNeedlessQuery

=============================================================================
