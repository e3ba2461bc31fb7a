------------------------------- MODULE Server -------------------------------
(***************************************************************************)
(* Server: the HTTP layer with the service of places behind it.  Where     *)
(* Http has one step for an operation, a request for places goes on with   *)
(* the steps of Locations, and the answer is made from what they end with. *)
(***************************************************************************)
EXTENDS Http, Locations

CONSTANT Calls  \* the requests for places, by the operation they are for

\* Each operation takes the parts its handler reads, the others are not there.
ASSUME ServerAssumption ==
  \A r \in Calls :
    /\ r \in [op : {"GetCountries", "GetCities", "GetStates", "GetZipCodes"},
              country : Seq(STRING), text : Seq(STRING), state : Seq(STRING)]
    /\ r.op = "GetCountries" => r.country = <<>>
    /\ r.op \in {"GetCountries", "GetStates"} => r.state = <<>>

vars2 == <<vars, locations>>

Looked == {GetCountries, GetCities, GetStates, GetZipCodes}

\* Every other operation is one step.
Elsewhere(A) == A /\ UNCHANGED locations
Operated ==
  /\ pc = "operating" /\ Reached \notin Looked
  /\ \E o \in Outcomes : Elsewhere(Operate(o))

Locate(r) ==
  /\ pc = "operating" /\ Reached \in Looked /\ r.op = Reached.op
  /\ Ask(r) /\ pc' = "locating"
  /\ UNCHANGED <<secret, token, req, at, ran, status, requests>>

Locating(A) == pc = "locating" /\ A /\ UNCHANGED vars

\* The four handlers answer an error of the service with the one they know.
Located ==
  /\ pc = "locating" /\ Return
  /\ ran' = IF ~answer.ok THEN "other" ELSE IF answer.whole THEN "done" ELSE "incomplete"
  /\ Answer(IF answer.ok THEN Reached.ok ELSE Reached.errors["other"])
  /\ UNCHANGED <<secret, token, req, at, requests>>

Hour == pc = "idle" /\ Pass({"hour"}) /\ UNCHANGED vars
Day  == Expire /\ Pass({"hour", "day"})

\* What the server does by itself, and what others that it calls and waits for do: the database,
\* the model, the directories.
Work ==
  \/ Elsewhere(Advance) \/ Elsewhere(Test)
  \/ (\E r \in Calls : Locate(r)) \/ Locating(Gather) \/ Located
Others == Operated \/ Locating(Directory)

ServerInit == Init /\ LocationsInit
ServerNext ==
  \/ \E i \in Handled : \E d \in Defects(Stack[i].handler), t \in {token, NoToken} :
       Elsewhere(Send(i, d, t))
  \/ Work \/ Others \/ Elsewhere(Receive) \/ Hour \/ Day

\* The server goes on as long as it has work of its own.  A call it has made may stay open for
\* ever: the client of the directories has no time limit (location_service.go:90,221,257,290,348).
ServerSpec == ServerInit /\ [][ServerNext]_vars2 /\ WF_vars2(Work)

-----------------------------------------------------------------------------
\* The server is again and again without work, so a request that was sent is answered, unless one
\* and the same call to another stays open for ever: no goroutine keeps a slot or a lock another
\* waits for, none ends without saying so, and no handler ends without an answer
\* (location_service.go:278-323).
EveryRequestAnswered ==
  \/ []<>(pc \in {"idle", "answered"})
  \/ <>[](pc = "operating" /\ Reached \notin Looked)
  \/ <>[](phase = "asked")
  \/ \E p \in Country : <>[](worker[p] = "asking")
=============================================================================
