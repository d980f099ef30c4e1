---------------------- MODULE ReservationServer_proofs ----------------------
(***************************************************************************)
(* The invariants of the reservation server, for any number of clients,    *)
(* users and seats.                                                        *)
(*                                                                         *)
(* MutexInv says which thread holds which mutex by where the thread is, so *)
(* two threads that are between lock and unlock name different users and   *)
(* seats.  A thread changes only entries of its client, of the user and of *)
(* the seat it names; hence what another has tested (DecisionsStand) or    *)
(* seen (ScanIsExact) stands.  ActionInv and TypeOK keep the places of a   *)
(* thread and the query it works on together.                              *)
(***************************************************************************)
EXTENDS ReservationServer, TLAPS

USE ServerAssumption DEF ServerAssumption, None

\* What the query of a thread inside a handler is.
LEMMA QueryFacts ==
    ASSUME TypeOK, NEW c \in Clients, pc[c] \in Handling
    PROVE  /\ q[c] \in Handled
           /\ q[c].user \in Users
           /\ q[c].action \in SeatActions \cup {"login", "logout"}
           /\ q[c].action \in SeatActions => q[c].arg \in Seats
           /\ q[c].action = "login" => q[c].arg \in Passwords
  <1>1. q[c] \in Handled
    BY DEF TypeOK
  <1> QED BY <1>1 DEF Handled, SeatActions

LEMMA TypeInit == Init => TypeOK
  BY DEF Init, TypeOK, Clients, Users, Seats, Queries, Unread, Handling, Waiting,
     Assigning, Unlocking

-----------------------------------------------------------------------------
\* Types, and the places of a thread.  The steps of a handler.
LEMMA HandleKeepsTypes ==
    ASSUME TypeOK, ActionInv, NEW c \in Clients, Handle(c)
    PROVE  TypeOK' /\ ActionInv'
  <1> USE DEF TypeOK, ActionInv, Goto, tables, mutexes, locals
  <1> USE DEF Handling, Waiting, Assigning, Unlocking, SeatActions
  <1>0. pc[c] \in Handling
    BY DEF Handle, LockClient, LockUser, LockSeat, Decide, LoginClient, LogoutClient,
       SetUser, SetSeat, ScanSeat, ScanEnd, Reply, UnlockClient, UnlockUser, UnlockSeat
  <1>q. /\ q[c] \in Handled
        /\ q[c].user \in Users
        /\ q[c].action \in SeatActions \cup {"login", "logout"}
        /\ q[c].action \in SeatActions => q[c].arg \in Seats
        /\ q[c].action = "login" => q[c].arg \in Passwords
    BY <1>0, QueryFacts
  <1>1. CASE LockClient(c)
    BY <1>1, <1>q DEF LockClient, AfterLock
  <1>2. CASE LockUser(c)
    BY <1>2, <1>q DEF LockUser, AfterLock
  <1>3. CASE LockSeat(c)
    BY <1>3, <1>q DEF LockSeat, AfterLock
  <1>4. CASE Decide(c)
    BY <1>4, <1>q DEF Decide, FirstStep, Granted
  <1>5. CASE LoginClient(c)
    BY <1>5, <1>q DEF LoginClient
  <1>6. CASE LogoutClient(c)
    BY <1>6, <1>q DEF LogoutClient
  <1>7. CASE SetUser(c)
    BY <1>7, <1>q DEF SetUser, NewClient
  <1>8. CASE SetSeat(c)
    BY <1>8, <1>q DEF SetSeat
  <1>9. CASE ScanSeat(c)
    BY <1>9, <1>q DEF ScanSeat, Seats
  <1>10. CASE ScanEnd(c)
    BY <1>10, <1>q DEF ScanEnd
  <1>11. CASE Reply(c)
    BY <1>11, <1>q DEF Reply
  <1>12. CASE UnlockClient(c)
    BY <1>12, <1>q DEF UnlockClient
  <1>13. CASE UnlockUser(c)
    BY <1>13, <1>q DEF UnlockUser
  <1>14. CASE UnlockSeat(c)
    BY <1>14, <1>q DEF UnlockSeat
  <1> QED BY <1>1, <1>2, <1>3, <1>4, <1>5, <1>6, <1>7, <1>8, <1>9, <1>10, <1>11,
             <1>12, <1>13, <1>14 DEF Handle

\* The switch of thread_func: a thread enters a handler with a handled query.
LEMMA DispatchFacts ==
    ASSUME TypeOK, NEW c \in Clients, pc[c] = "read", NEW x \in Queries, Dispatch(c, x)
    PROVE  \/ /\ pc' = [pc EXCEPT ![c] = "closed"]
              /\ q' = [q EXCEPT ![c] = Unread]
              /\ gone' = gone \ {c}
           \/ pc' = pc /\ q' = [q EXCEPT ![c] = Other] /\ gone' = gone
           \/ /\ x \in Handled
              /\ pc' = [pc EXCEPT ![c] = "c2u"]
              /\ q' = [q EXCEPT ![c] = x]
              /\ gone' = gone
  <1>1. Exit # Other
    BY DEF Exit, Other
  <1>2. CASE x = Exit
    BY <1>2 DEF Dispatch, Goto
  <1>3. CASE x = Other
    BY <1>1, <1>3 DEF Dispatch, Goto
  <1>4. CASE x # Exit /\ x # Other
    BY <1>4 DEF Dispatch, Goto, Queries
  <1> QED BY <1>2, <1>3, <1>4

\* A connection's own steps leave tables, mutexes and locals alone, and move a
\* thread only between handlers, into one, or out of the connection.
LEMMA ConnectionFacts ==
    ASSUME TypeOK, NEW c \in Clients,
           Accept(c) \/ HangUp(c) \/ Read(c) \/ ReadAtEnd(c)
    PROVE  /\ UNCHANGED <<tables, mutexes, locals>>
           /\ \/ pc' = pc /\ q' = q /\ pc[c] # "closed" /\ gone' = gone \cup {c}
              \/ /\ pc[c] = "closed"
                 /\ pc' = [pc EXCEPT ![c] = "read"]
                 /\ q' = q /\ gone' = gone
              \/ /\ pc[c] = "read"
                 /\ pc' = [pc EXCEPT ![c] = "closed"]
                 /\ q' = [q EXCEPT ![c] = Unread]
                 /\ gone' = gone \ {c}
              \/ /\ pc[c] = "read" /\ pc' = pc
                 /\ q' = [q EXCEPT ![c] = Other]
                 /\ gone' = gone
              \/ \E x \in Handled :
                    /\ pc[c] = "read"
                    /\ pc' = [pc EXCEPT ![c] = "c2u"]
                    /\ q' = [q EXCEPT ![c] = x]
                    /\ gone' = gone
  <1>1. CASE Accept(c)
    BY <1>1 DEF Accept, Goto
  <1>2. CASE HangUp(c)
    BY <1>2 DEF HangUp
  <1>3. CASE Read(c)
    <2>1. PICK x \in Queries : Dispatch(c, x)
      BY <1>3 DEF Read
    <2> QED BY <1>3, <2>1, DispatchFacts DEF Read
  <1>4. CASE ReadAtEnd(c)
    <2>0. q[c] \in Queries \cup {Unread}
      BY DEF TypeOK
    <2>1. PICK x \in Queries : Dispatch(c, x)
      BY <1>4, <2>0 DEF ReadAtEnd
    <2> QED BY <1>4, <2>1, DispatchFacts DEF ReadAtEnd
  <1> QED BY <1>1, <1>2, <1>3, <1>4

LEMMA ConnectionKeepsTypes ==
    ASSUME TypeOK, ActionInv, NEW c \in Clients,
           Accept(c) \/ HangUp(c) \/ Read(c) \/ ReadAtEnd(c)
    PROVE  TypeOK' /\ ActionInv'
  <1> USE DEF tables, mutexes, locals
  <1> USE DEF Handling, Waiting, Assigning, Unlocking, SeatActions
  <1>0. UNCHANGED <<tables, mutexes, locals>>
    BY ConnectionFacts
  <1>1. CASE pc' = pc /\ q' = q /\ pc[c] # "closed" /\ gone' = gone \cup {c}
    BY <1>0, <1>1 DEF TypeOK, ActionInv
  <1>2. CASE pc[c] = "closed" /\ pc' = [pc EXCEPT ![c] = "read"] /\ q' = q /\ gone' = gone
    BY <1>0, <1>2 DEF TypeOK, ActionInv
  <1>3. CASE /\ pc[c] = "read" /\ pc' = [pc EXCEPT ![c] = "closed"]
             /\ q' = [q EXCEPT ![c] = Unread]
             /\ gone' = gone \ {c}
    BY <1>0, <1>3 DEF TypeOK, ActionInv
  <1>4. CASE pc[c] = "read" /\ pc' = pc /\ q' = [q EXCEPT ![c] = Other] /\ gone' = gone
    BY <1>0, <1>4 DEF TypeOK, ActionInv, Queries
  <1>5. ASSUME NEW x \in Handled, pc[c] = "read", pc' = [pc EXCEPT ![c] = "c2u"],
               q' = [q EXCEPT ![c] = x], gone' = gone
        PROVE  TypeOK' /\ ActionInv'
    BY <1>0, <1>5 DEF TypeOK, ActionInv, Queries
  <1> QED BY <1>1, <1>2, <1>3, <1>4, <1>5, ConnectionFacts

LEMMA TypeStep == TypeOK /\ ActionInv /\ [Next]_vars => TypeOK' /\ ActionInv'
  <1> SUFFICES ASSUME TypeOK, ActionInv, [Next]_vars
               PROVE  TypeOK' /\ ActionInv'
    OBVIOUS
  <1>1. CASE UNCHANGED vars
    BY <1>1 DEF vars, tables, mutexes, locals, TypeOK, ActionInv
  <1>2. CASE Next
    BY <1>2, HandleKeepsTypes, ConnectionKeepsTypes DEF Next
  <1> QED BY <1>1, <1>2

-----------------------------------------------------------------------------
\* The mutexes.

\* What a handler step does to mutexes, places and queries: it takes one that is
\* free, gives one back, or leaves them alone and stays between lock and unlock.
LEMMA MutexStepHandle ==
    ASSUME TypeOK, ActionInv, MutexInv, NEW c \in Clients, Handle(c)
    PROVE  MutexInv'
  <1> USE DEF Goto, tables, mutexes, locals, HoldsClient, HoldsUser, HoldsSeat
  <1> USE DEF Handling, Waiting, Assigning, Unlocking, SeatActions
  <1>0. pc[c] \in Handling
    BY DEF Handle, LockClient, LockUser, LockSeat, Decide, LoginClient, LogoutClient,
       SetUser, SetSeat, ScanSeat, ScanEnd, Reply, UnlockClient, UnlockUser, UnlockSeat
  <1>q. /\ q[c].user \in Users
        /\ q[c].action \in SeatActions \cup {"login", "logout"}
        /\ q[c].action \in SeatActions => q[c].arg \in Seats
    BY <1>0, QueryFacts
  <1>t. /\ pc \in [Clients -> Handling \cup {"closed", "read"}]
        /\ c2u_mutex \in [Clients -> Clients \cup {None}]
        /\ u2c_mutex \in [Users -> Clients \cup {None}]
        /\ seat_mutex \in [Seats -> Clients \cup {None}]
        /\ None \notin Clients
    BY DEF TypeOK, Clients
  <1>1. CASE LockClient(c)
    BY <1>1, <1>q, <1>t DEF LockClient, AfterLock, MutexInv
  <1>2. CASE LockUser(c)
    BY <1>2, <1>q, <1>t DEF LockUser, AfterLock, MutexInv
  <1>3. CASE LockSeat(c)
    BY <1>3, <1>q, <1>t DEF LockSeat, AfterLock, MutexInv, ActionInv
  <1>4. CASE UnlockClient(c)
    BY <1>4, <1>q, <1>t DEF UnlockClient, MutexInv
  <1>5. CASE UnlockUser(c)
    BY <1>5, <1>q, <1>t DEF UnlockUser, MutexInv
  <1>6. CASE UnlockSeat(c)
    BY <1>6, <1>q, <1>t DEF UnlockSeat, MutexInv, ActionInv
  <1>7. CASE \/ Decide(c) \/ LoginClient(c) \/ LogoutClient(c) \/ SetUser(c)
             \/ SetSeat(c) \/ ScanSeat(c) \/ ScanEnd(c) \/ Reply(c)
    <2>1. UNCHANGED <<mutexes, q>>
      BY <1>7 DEF Decide, LoginClient, LogoutClient, SetUser, SetSeat, ScanSeat,
                  ScanEnd, Reply
    <2>2. PICK l \in Handling \ (Waiting \cup {"unlock_u2c", "unlock_seat"}) :
            pc' = [pc EXCEPT ![c] = l]
      BY <1>7, <1>t DEF Decide, FirstStep, LoginClient, LogoutClient, SetUser, SetSeat,
                  ScanSeat, ScanEnd, Reply
    <2>3. pc[c] \in Handling \ (Waiting \cup Unlocking)
      BY <1>7 DEF Decide, LoginClient, LogoutClient, SetUser, SetSeat, ScanSeat,
                  ScanEnd, Reply
    <2> QED BY <2>1, <2>2, <2>3, <1>t DEF MutexInv
  <1> QED BY <1>1, <1>2, <1>3, <1>4, <1>5, <1>6, <1>7 DEF Handle

LEMMA MutexStep == TypeOK /\ ActionInv /\ MutexInv /\ [Next]_vars => MutexInv'
  <1> SUFFICES ASSUME TypeOK, ActionInv, MutexInv, [Next]_vars
               PROVE  MutexInv'
    OBVIOUS
  <1> USE DEF tables, mutexes, locals
  <1>1. CASE UNCHANGED vars
    BY <1>1 DEF vars, MutexInv, HoldsClient, HoldsUser, HoldsSeat
  <1>2. ASSUME NEW c \in Clients, Handle(c)
        PROVE  MutexInv'
    BY <1>2, MutexStepHandle
  <1>3. ASSUME NEW c \in Clients, Accept(c) \/ HangUp(c) \/ Read(c) \/ ReadAtEnd(c)
        PROVE  MutexInv'
    <2>1. UNCHANGED mutexes
      BY <1>3, ConnectionFacts
    <2>2. \A d \in Clients :
            \/ pc'[d] = pc[d] /\ q'[d] = q[d]
            \/ pc[d] \in {"closed", "read"} /\ pc'[d] \in {"closed", "read", "c2u"}
      BY <1>3, ConnectionFacts DEF TypeOK
    <2> QED BY <2>1, <2>2 DEF MutexInv, HoldsClient, HoldsUser, HoldsSeat, Handling, Waiting,
                              Assigning, Unlocking
  <1> QED BY <1>1, <1>2, <1>3 DEF Next

\* Two threads between lock and unlock name different users and seats.
LEMMA Exclusion ==
    ASSUME TypeOK, ActionInv, MutexInv, NEW c \in Clients, NEW d \in Clients, c # d
    PROVE  /\ HoldsUser(c) /\ HoldsUser(d) => q[c].user # q[d].user
           /\ HoldsSeat(c) /\ HoldsSeat(d) => q[c].arg # q[d].arg
  <1>1. ASSUME HoldsUser(c), HoldsUser(d), q[c].user = q[d].user
        PROVE  FALSE
    <2>1. q[c].user \in Users
      BY <1>1, QueryFacts DEF HoldsUser
    <2> QED BY <1>1, <2>1 DEF MutexInv
  <1>2. ASSUME HoldsSeat(c), HoldsSeat(d), q[c].arg = q[d].arg
        PROVE  FALSE
    <2>1. q[c].arg \in Seats
      BY <1>2, QueryFacts DEF HoldsSeat
    <2> QED BY <1>2, <2>1 DEF MutexInv
  <1> QED BY <1>1, <1>2

-----------------------------------------------------------------------------
\* Tests and lists.

\* A thread touches its own locals and the entries whose mutexes it holds.
LEMMA Footprint ==
    ASSUME TypeOK, ActionInv, NEW c \in Clients, Handle(c)
    PROVE  /\ \A d \in Clients \ {c} :
                 /\ pc'[d] = pc[d] /\ q'[d] = q[d]
                 /\ ret'[d] = ret[d] /\ found'[d] = found[d] /\ scanned'[d] = scanned[d]
                 /\ client2user'[d] = client2user[d]
           /\ \A u \in Users :
                 \/ HoldsUser(c) /\ q[c].user = u
                 \/ user2client'[u] = user2client[u] /\ password'[u] = password[u]
           /\ \A s \in Seats :
                 \/ HoldsSeat(c) /\ q[c].arg = s
                 \/ seat'[s] = seat[s]
  <1> USE DEF Goto, tables, mutexes, locals, TypeOK
  <1>1. CASE LockClient(c) \/ LockUser(c) \/ LockSeat(c)
    BY <1>1 DEF LockClient, LockUser, LockSeat
  <1>2. CASE UnlockClient(c) \/ UnlockUser(c) \/ UnlockSeat(c)
    BY <1>2 DEF UnlockClient, UnlockUser, UnlockSeat
  <1>3. CASE Decide(c) \/ ScanSeat(c) \/ ScanEnd(c) \/ Reply(c)
    BY <1>3 DEF Decide, ScanSeat, ScanEnd, Reply
  <1>4. CASE LoginClient(c) \/ LogoutClient(c) \/ SetUser(c)
    BY <1>4 DEF LoginClient, LogoutClient, SetUser, HoldsUser, Handling, Assigning
  <1>5. CASE SetSeat(c)
    BY <1>5 DEF SetSeat, HoldsSeat, Handling, Assigning, Waiting, ActionInv, SeatActions
  <1> QED BY <1>1, <1>2, <1>3, <1>4, <1>5 DEF Handle

\* Seats come and go only for the user a thread works for.
LEMMA SeatsKept ==
    ASSUME TypeOK, ActionInv, DecisionsStand, NEW c \in Clients, Handle(c),
           NEW u \in Users, ~(HoldsUser(c) /\ q[c].user = u)
    PROVE  \A s \in Seats : seat'[s] = u <=> seat[s] = u
  <1>1. CASE SetSeat(c)
    <2>1. Granted(c) /\ q[c].action \in {"reserve", "cancel"} /\ q[c].user # u
      BY <1>1 DEF SetSeat, DecisionsStand, ActionInv, HoldsUser, Handling, Assigning
    <2>2. u # None
      BY DEF Users
    <2>3. q[c].arg \in Seats
      BY <1>1, <2>1, QueryFacts DEF SetSeat, SeatActions, Handling, Assigning
    <2>4. CASE q[c].action = "reserve"
      <3>1. seat[q[c].arg] = None /\ seat' = [seat EXCEPT ![q[c].arg] = q[c].user]
        BY <1>1, <2>1, <2>4 DEF Granted, MayReserve, SetSeat
      <3> QED BY <2>1, <2>2, <2>3, <3>1 DEF TypeOK
    <2>5. CASE q[c].action = "cancel"
      <3>1. seat[q[c].arg] = q[c].user /\ seat' = [seat EXCEPT ![q[c].arg] = None]
        BY <1>1, <2>1, <2>5 DEF Granted, MayCancel, SetSeat
      <3> QED BY <2>1, <2>2, <2>3, <3>1 DEF TypeOK
    <2> QED BY <2>1, <2>4, <2>5
  <1>2. CASE ~SetSeat(c)
    BY <1>2 DEF Handle, LockClient, LockUser, LockSeat, UnlockClient, UnlockUser, UnlockSeat,
       Decide, LoginClient, LogoutClient, SetUser, ScanSeat, ScanEnd, Reply, tables
  <1> QED BY <1>1, <1>2

\* One thread's share of DecisionsStand and of ScanIsExact.
Stands(c) ==
    /\ pc[c] \in {"set_client", "set_seat", "scan"} => Granted(c)
    /\ pc[c] = "set_user" =>
        /\ client2user[c] = IF q[c].action = "login" THEN q[c].user ELSE None
        /\ user2client[q[c].user] = None <=> q[c].action = "login"
Exact(c) ==
    /\ pc[c] = "scan" => found[c] = {s \in SeatsOf(q[c].user) : s < scanned[c]}
    /\ pc[c] = "reply" /\ q[c].action = "check" /\ ret[c] =>
        found[c] = SeatsOf(q[c].user)

LEMMA StandsAfterOwnStep ==
    ASSUME TypeOK, ActionInv, MutexInv, DecisionsStand, NEW c \in Clients, Handle(c)
    PROVE  Stands(c)'
  <1> USE DEF Goto, tables, mutexes, locals
  <1>t. /\ pc \in [Clients -> Handling \cup {"closed", "read"}]
        /\ client2user \in [Clients -> Users \cup {None}]
        /\ user2client \in [Users -> Clients \cup {None}]
    BY DEF TypeOK
  <1>1. CASE LockClient(c)
    BY <1>1, <1>t DEF LockClient, AfterLock, Stands
  <1>2. CASE LockUser(c)
    BY <1>2, <1>t DEF LockUser, AfterLock, Stands
  <1>3. CASE LockSeat(c)
    BY <1>3, <1>t DEF LockSeat, AfterLock, Stands
  <1>4. CASE Decide(c)
    <2>1. Granted(c)' <=> Granted(c)
      BY <1>4 DEF Decide, Granted, MayLogin, MayLogout, MayReserve, MayCancel, InSession
    <2>2. pc'[c] = IF Granted(c) THEN FirstStep(q[c].action) ELSE "reply"
      BY <1>4, <1>t DEF Decide
    <2> QED BY <2>1, <2>2 DEF Stands, FirstStep
  <1>5. CASE LoginClient(c)
    <2>1. q[c].user \in Users
      BY <1>5, QueryFacts DEF LoginClient, Handling, Assigning
    <2>2. Granted(c)
      BY <1>5 DEF DecisionsStand, LoginClient
    <2>3. user2client[q[c].user] = None
      BY <1>5, <2>2 DEF Granted, MayLogin, LoginClient
    <2> QED BY <1>5, <1>t, <2>1, <2>3 DEF LoginClient, Stands
  <1>6. CASE LogoutClient(c)
    <2>1. Granted(c)
      BY <1>6 DEF DecisionsStand, LogoutClient
    <2>2. user2client[q[c].user] # None
      BY <1>6, <2>1 DEF Granted, MayLogout, LogoutClient
    <2> QED BY <1>6, <1>t, <2>2 DEF LogoutClient, Stands
  <1>7. CASE SetUser(c) \/ SetSeat(c) \/ ScanEnd(c) \/ Reply(c)
    BY <1>7, <1>t DEF SetUser, SetSeat, ScanEnd, Reply, Stands
  <1>8. CASE ScanSeat(c)
    <2>1. Granted(c)' <=> Granted(c)
      BY <1>8 DEF ScanSeat, Granted, MayLogin, MayLogout, MayReserve, MayCancel, InSession
    <2> QED BY <1>8, <2>1 DEF ScanSeat, Stands, DecisionsStand
  <1>9. CASE UnlockClient(c) \/ UnlockUser(c) \/ UnlockSeat(c)
    BY <1>9, <1>t DEF UnlockClient, UnlockUser, UnlockSeat, Stands
  <1> QED BY <1>1, <1>2, <1>3, <1>4, <1>5, <1>6, <1>7, <1>8, <1>9 DEF Handle

LEMMA StandsAfterOthersStep ==
    ASSUME TypeOK, ActionInv, MutexInv, DecisionsStand, NEW c \in Clients, Handle(c),
           NEW d \in Clients, c # d
    PROVE  Stands(d)'
  <1>1. /\ pc'[d] = pc[d] /\ q'[d] = q[d]
        /\ client2user'[d] = client2user[d]
    BY Footprint
  <1>2. SUFFICES ASSUME pc[d] \in {"set_client", "set_user", "set_seat", "scan"}
                 PROVE  Stands(d)'
    BY <1>1 DEF Stands
  <1>3. HoldsUser(d) /\ q[d].user \in Users
    BY <1>2, QueryFacts DEF HoldsUser, Handling, Assigning
  <1>4. /\ user2client'[q[d].user] = user2client[q[d].user]
        /\ password'[q[d].user] = password[q[d].user]
    BY <1>3, Exclusion, Footprint
  <1>5. q[d].action \in SeatActions => seat'[q[d].arg] = seat[q[d].arg]
    <2>1. SUFFICES ASSUME q[d].action \in SeatActions
                   PROVE  seat'[q[d].arg] = seat[q[d].arg]
      OBVIOUS
    <2>2. HoldsSeat(d) /\ q[d].arg \in Seats
      BY <1>2, <2>1, QueryFacts DEF HoldsSeat, Handling, Assigning, Waiting
    <2> QED BY <2>2, Exclusion, Footprint
  <1>6. Granted(d) => Granted(d)'
    BY <1>1, <1>4, <1>5 DEF Granted, MayLogin, MayLogout, MayReserve, MayCancel, InSession,
       SeatActions
  <1> QED BY <1>1, <1>4, <1>6 DEF Stands, DecisionsStand

LEMMA ExactAfterOwnStep ==
    ASSUME TypeOK, ActionInv, MutexInv, DecisionsStand, ScanIsExact,
           NEW c \in Clients, Handle(c)
    PROVE  Exact(c)'
  <1> USE DEF Goto, tables, mutexes, locals
  <1>t. /\ pc \in [Clients -> Handling \cup {"closed", "read"}]
        /\ found \in [Clients -> SUBSET Seats]
        /\ scanned \in [Clients -> 0 .. MAXSEAT]
        /\ ret \in [Clients -> BOOLEAN]
    BY DEF TypeOK
  <1>1. CASE LockClient(c) \/ LockUser(c) \/ LockSeat(c)
    BY <1>1, <1>t DEF LockClient, LockUser, LockSeat, AfterLock, Exact
  <1>2. CASE Decide(c)
    <2>1. pc'[c] = IF Granted(c) THEN FirstStep(q[c].action) ELSE "reply"
      BY <1>2, <1>t DEF Decide
    <2>2. found'[c] = {} /\ scanned'[c] = 0 /\ (ret'[c] <=> Granted(c))
      BY <1>2, <1>t DEF Decide
    <2>3. \A s \in Seats : ~(s < 0)
      BY DEF Seats
    <2>4. q' = q
      BY <1>2 DEF Decide
    <2>5. pc'[c] = "reply" => ~ret'[c]
      BY <2>1, <2>2 DEF FirstStep
    <2> QED BY <2>2, <2>3, <2>4, <2>5 DEF Exact, SeatsOf
  <1>3. CASE LoginClient(c) \/ LogoutClient(c) \/ UnlockClient(c) \/ UnlockUser(c)
             \/ UnlockSeat(c)
    BY <1>3, <1>t DEF LoginClient, LogoutClient, UnlockClient, UnlockUser, UnlockSeat, Exact
  <1>4. CASE SetUser(c) \/ SetSeat(c)
    BY <1>4, <1>t DEF SetUser, SetSeat, Exact, ActionInv
  <1>5. CASE Reply(c)
    BY <1>5, <1>t DEF Reply, Exact
  <1>6. CASE ScanSeat(c)
    <2>1. found[c] = {s \in SeatsOf(q[c].user) : s < scanned[c]}
      BY <1>6 DEF ScanSeat, ScanIsExact
    <2>2. scanned[c] \in Seats /\ scanned'[c] = scanned[c] + 1
      BY <1>6, <1>t DEF ScanSeat, Seats
    <2>3. \A s \in Seats : s < scanned[c] + 1 <=> s < scanned[c] \/ s = scanned[c]
      BY <2>2 DEF Seats
    <2>4. found'[c] = IF seat[scanned[c]] = q[c].user
                      THEN found[c] \cup {scanned[c]} ELSE found[c]
      BY <1>6, <1>t DEF ScanSeat
    <2>5. found'[c] = {s \in SeatsOf(q[c].user) : s < scanned[c] + 1}
      BY <2>1, <2>2, <2>3, <2>4 DEF SeatsOf
    <2>6. pc' = pc /\ q' = q /\ seat' = seat
      BY <1>6 DEF ScanSeat
    <2>7. SeatsOf(q[c].user)' = SeatsOf(q[c].user)
      BY <2>6 DEF SeatsOf
    <2> QED BY <1>6, <2>2, <2>5, <2>6, <2>7 DEF Exact, ScanSeat
  <1>7. CASE ScanEnd(c)
    <2>1. found[c] = {s \in SeatsOf(q[c].user) : s < scanned[c]} /\ scanned[c] = MAXSEAT
      BY <1>7 DEF ScanEnd, ScanIsExact
    <2>2. \A s \in Seats : s < MAXSEAT
      BY DEF Seats
    <2>3. found[c] = SeatsOf(q[c].user)
      BY <2>1, <2>2 DEF SeatsOf
    <2> QED BY <1>7, <1>t, <2>3 DEF ScanEnd, Exact, SeatsOf
  <1> QED BY <1>1, <1>2, <1>3, <1>4, <1>5, <1>6, <1>7 DEF Handle

LEMMA ExactAfterOthersStep ==
    ASSUME TypeOK, ActionInv, MutexInv, DecisionsStand, ScanIsExact,
           NEW c \in Clients, Handle(c), NEW d \in Clients, c # d
    PROVE  Exact(d)'
  <1>1. /\ pc'[d] = pc[d] /\ q'[d] = q[d]
        /\ ret'[d] = ret[d] /\ found'[d] = found[d] /\ scanned'[d] = scanned[d]
    BY Footprint
  <1>2. SUFFICES ASSUME pc[d] \in {"scan", "reply"}
                 PROVE  Exact(d)'
    BY <1>1 DEF Exact
  <1>3. HoldsUser(d) /\ q[d].user \in Users
    BY <1>2, QueryFacts DEF HoldsUser, Handling
  <1>4. \A s \in Seats : seat'[s] = q[d].user <=> seat[s] = q[d].user
    <2>1. ~(HoldsUser(c) /\ q[c].user = q[d].user)
      BY <1>3, Exclusion
    <2> QED BY <1>3, <2>1, SeatsKept
  <1>5. SeatsOf(q[d].user)' = SeatsOf(q[d].user)
    BY <1>1, <1>4 DEF SeatsOf
  <1> QED BY <1>1, <1>5 DEF Exact, ScanIsExact

LEMMA ConnectionKeepsTests ==
    ASSUME TypeOK, DecisionsStand, ScanIsExact, NEW c \in Clients,
           Accept(c) \/ HangUp(c) \/ Read(c) \/ ReadAtEnd(c),
           NEW d \in Clients
    PROVE  Stands(d)' /\ Exact(d)'
  <1> USE DEF tables, locals
  <1>1. UNCHANGED <<tables, locals>>
    BY ConnectionFacts
  <1>2. \/ pc'[d] = pc[d] /\ q'[d] = q[d]
        \/ pc'[d] \in {"closed", "read", "c2u"}
    BY ConnectionFacts DEF TypeOK
  <1>3. CASE pc'[d] = pc[d] /\ q'[d] = q[d]
    <2>1. Granted(d)' <=> Granted(d)
      BY <1>1, <1>3 DEF Granted, MayLogin, MayLogout, MayReserve, MayCancel, InSession
    <2>2. SeatsOf(q[d].user)' = SeatsOf(q[d].user)
      BY <1>1, <1>3 DEF SeatsOf
    <2> QED BY <1>1, <1>3, <2>1, <2>2 DEF Stands, Exact, DecisionsStand, ScanIsExact
  <1>4. CASE pc'[d] \in {"closed", "read", "c2u"}
    BY <1>4 DEF Stands, Exact
  <1> QED BY <1>2, <1>3, <1>4

LEMMA TestsStep ==
    TypeOK /\ ActionInv /\ MutexInv /\ DecisionsStand /\ ScanIsExact /\ [Next]_vars
    => DecisionsStand' /\ ScanIsExact'
  <1> SUFFICES ASSUME TypeOK, ActionInv, MutexInv, DecisionsStand, ScanIsExact, [Next]_vars
               PROVE  DecisionsStand' /\ ScanIsExact'
    OBVIOUS
  <1>1. SUFFICES ASSUME NEW d \in Clients
                 PROVE  Stands(d)' /\ Exact(d)'
    BY DEF DecisionsStand, ScanIsExact, Stands, Exact
  <1>2. CASE UNCHANGED vars
    BY <1>2 DEF vars, tables, mutexes, locals, Stands, Exact, DecisionsStand, ScanIsExact,
       SeatsOf, Granted, MayLogin, MayLogout, MayReserve, MayCancel, InSession
  <1>3. ASSUME NEW c \in Clients, Handle(c)
        PROVE  Stands(d)' /\ Exact(d)'
    <2>1. CASE c = d
      BY <1>3, <2>1, StandsAfterOwnStep, ExactAfterOwnStep
    <2>2. CASE c # d
      BY <1>3, <2>2, StandsAfterOthersStep, ExactAfterOthersStep
    <2> QED BY <2>1, <2>2
  <1>4. ASSUME NEW c \in Clients, Accept(c) \/ HangUp(c) \/ Read(c) \/ ReadAtEnd(c)
        PROVE  Stands(d)' /\ Exact(d)'
    BY <1>4, ConnectionKeepsTests
  <1> QED BY <1>2, <1>3, <1>4 DEF Next

-----------------------------------------------------------------------------
\* The theorems.

LEMMA IndInit == Init => IndInv
  <1> SUFFICES ASSUME Init
               PROVE  IndInv
    OBVIOUS
  <1>1. TypeOK
    BY TypeInit
  <1>2. ActionInv
    BY DEF Init, ActionInv, Assigning
  <1>3. MutexInv
    BY DEF Init, MutexInv, HoldsClient, HoldsUser, HoldsSeat, Handling, Waiting, Assigning,
       Unlocking, Clients
  <1>4. DecisionsStand /\ ScanIsExact
    BY DEF Init, DecisionsStand, ScanIsExact
  <1> QED BY <1>1, <1>2, <1>3, <1>4 DEF IndInv

\* Every reachable state satisfies the inductive invariant: mutexes are held by
\* the threads between lock and unlock, tests and lists stand.
THEOREM ServerInvariance == Spec => []IndInv
  <1>1. IndInv /\ [Next]_vars => IndInv'
    BY TypeStep, MutexStep, TestsStep DEF IndInv
  <1> QED BY IndInit, <1>1, PTL DEF Spec

\* No thread ever works on a query without a handler, and every table entry is
\* a user, a client or nobody, whatever the threads do.
THEOREM ServerTypeCorrect == Spec => []TypeOK
  <1>1. IndInv => TypeOK
    BY DEF IndInv
  <1> QED BY ServerInvariance, <1>1, PTL

\* No handler acts on a test that another thread has made untrue: the mutexes
\* of login, reserve, cancel_reservation and logout are enough.
THEOREM NoStaleDecision == Spec => []DecisionsStand
  <1>1. IndInv => DecisionsStand
    BY DEF IndInv
  <1> QED BY ServerInvariance, <1>1, PTL

\* check_reservation lists exactly the seats of its user, though it reads the
\* seats of others while they change.
THEOREM ListsAreExact == Spec => []ScanIsExact
  <1>1. IndInv => ScanIsExact
    BY DEF IndInv
  <1> QED BY ServerInvariance, <1>1, PTL

\* The threads never deadlock.  In a set of waiting threads take one that waits
\* for the mutex that comes last in the order c2u, u2c, seat: its holder has
\* all it needs up to that mutex, so it waits for a later one or not at all.
THEOREM DeadlockFree == Spec => []NoCircularWait
  <1>1. IndInv => NoCircularWait
    <2> SUFFICES ASSUME IndInv, NEW S \in SUBSET Clients, S # {}
                 PROVE  \E c \in S : \A d \in S : ~WaitsFor(c, d)
      BY DEF NoCircularWait
    <2>1. \A c, d \in Clients : WaitsFor(c, d) /\ pc[c] = "seat" => pc[d] \notin Waiting
      <3> SUFFICES ASSUME NEW c \in Clients, NEW d \in Clients, WaitsFor(c, d), pc[c] = "seat"
                   PROVE  pc[d] \notin Waiting
        OBVIOUS
      <3>1. q[c].arg \in Seats
        BY QueryFacts DEF IndInv, ActionInv, Handling, Waiting
      <3> QED BY <3>1 DEF WaitsFor, IndInv, MutexInv, HoldsSeat
    <2>2. \A c, d \in Clients : WaitsFor(c, d) /\ pc[c] = "u2c" => pc[d] \notin {"c2u", "u2c"}
      <3> SUFFICES ASSUME NEW c \in Clients, NEW d \in Clients, WaitsFor(c, d), pc[c] = "u2c"
                   PROVE  pc[d] \notin {"c2u", "u2c"}
        OBVIOUS
      <3>1. q[c].user \in Users
        BY QueryFacts DEF IndInv, Handling, Waiting
      <3> QED BY <3>1 DEF WaitsFor, IndInv, MutexInv, HoldsUser
    <2>3. \A c, d \in Clients : WaitsFor(c, d) /\ pc[c] = "c2u" => pc[d] # "c2u"
      BY DEF WaitsFor, IndInv, MutexInv, HoldsClient
    <2>4. \A c, d \in Clients : WaitsFor(c, d) => pc[c] \in Waiting
      BY DEF WaitsFor, Waiting
    <2>5. CASE \E c \in S : pc[c] = "seat"
      BY <2>1, <2>4, <2>5
    <2>6. CASE (\A c \in S : pc[c] # "seat") /\ \E c \in S : pc[c] = "u2c"
      BY <2>2, <2>4, <2>6 DEF Waiting
    <2>7. CASE \A c \in S : pc[c] \notin {"seat", "u2c"}
      BY <2>3, <2>4, <2>7 DEF Waiting
    <2> QED BY <2>5, <2>6, <2>7
  <1> QED BY ServerInvariance, <1>1, PTL

-----------------------------------------------------------------------------
\* The handlers are atomic: refinement of SeatBooking.

\* The entry of a user as the abstract service sees it.
SeenOK ==
    /\ \A u \in Users, c \in Clients :
          SetsUser(c, u) => user2clientSeen[u] = NewClient(c)
    /\ \A u \in Users :
          (\A c \in Clients : ~SetsUser(c, u)) => user2clientSeen[u] = user2client[u]
    /\ \A c \in Clients :
          HoldsUser(c) /\ pc[c] # "set_user" =>
          user2clientSeen[q[c].user] = user2client[q[c].user]

LEMMA SeenFacts == IndInv => SeenOK
  <1> SUFFICES ASSUME IndInv
               PROVE  SeenOK
    OBVIOUS
  <1>0. \A u \in Users : \A c, d \in Clients : SetsUser(c, u) /\ SetsUser(d, u) => c = d
    BY Exclusion DEF IndInv, SetsUser, HoldsUser, Handling, Assigning
  <1>1. ASSUME NEW u \in Users, NEW c \in Clients, SetsUser(c, u)
        PROVE  user2clientSeen[u] = NewClient(c)
    <2>1. (CHOOSE d \in Clients : SetsUser(d, u)) = c
      BY <1>0, <1>1
    <2> QED BY <1>1, <2>1 DEF user2clientSeen
  <1>2. ASSUME NEW u \in Users, \A c \in Clients : ~SetsUser(c, u)
        PROVE  user2clientSeen[u] = user2client[u]
    BY <1>2 DEF user2clientSeen
  <1>3. ASSUME NEW c \in Clients, HoldsUser(c), pc[c] # "set_user"
        PROVE  user2clientSeen[q[c].user] = user2client[q[c].user]
    <2>1. q[c].user \in Users
      BY <1>3, QueryFacts DEF IndInv, HoldsUser
    <2>2. \A d \in Clients : ~SetsUser(d, q[c].user)
      <3> SUFFICES ASSUME NEW d \in Clients, SetsUser(d, q[c].user)
                   PROVE  FALSE
        OBVIOUS
      <3>1. c # d /\ HoldsUser(d) /\ q[c].user = q[d].user
        BY <1>3 DEF SetsUser, HoldsUser, Handling, Assigning
      <3> QED BY <1>3, <3>1, Exclusion DEF IndInv
    <2> QED BY <1>2, <2>1, <2>2
  <1> QED BY <1>1, <1>2, <1>3 DEF SeenOK

\* Steps that set no entry of a user, nor finish setting one, leave the entries
\* as seen alone.
LEMMA SeenKept ==
    ASSUME NEW c \in Clients, user2client' = user2client,
           pc[c] # "set_user", pc'[c] # "set_user",
           \A d \in Clients \ {c} : pc'[d] = pc[d] /\ q'[d] = q[d]
    PROVE  user2clientSeen' = user2clientSeen
  <1>1. \A d \in Clients, u \in Users : SetsUser(d, u)' <=> SetsUser(d, u)
    BY DEF SetsUser
  <1>2. \A d \in Clients, u \in Users : SetsUser(d, u) => NewClient(d)' = NewClient(d)
    BY DEF SetsUser, NewClient
  <1>3. ASSUME NEW u \in Users
        PROVE  (CHOOSE d \in Clients : SetsUser(d, u))' = CHOOSE d \in Clients : SetsUser(d, u)
    BY <1>1
  <1> QED BY <1>1, <1>2, <1>3 DEF user2clientSeen

\* With the first assignment of login or logout the entry is as good as set.
LEMMA SeenSet ==
    ASSUME TypeOK, SeenOK, SeenOK', NEW c \in Clients, user2client' = user2client, q' = q,
           pc[c] = "set_client", pc'[c] = "set_user",
           \A d \in Clients \ {c} : pc'[d] = pc[d]
    PROVE  user2clientSeen' = [user2clientSeen EXCEPT ![q[c].user] = NewClient(c)]
  <1>1. q[c].user \in Users
    BY QueryFacts DEF Handling, Assigning
  <1>2. DOMAIN user2clientSeen = Users /\ DOMAIN user2clientSeen' = Users
    BY DEF user2clientSeen
  <1>3. NewClient(c)' = NewClient(c) /\ SetsUser(c, q[c].user)'
    BY DEF NewClient, SetsUser
  <1>4. user2clientSeen'[q[c].user] = NewClient(c)
    BY <1>1, <1>3 DEF SeenOK
  <1>5. ASSUME NEW u \in Users, u # q[c].user
        PROVE  user2clientSeen'[u] = user2clientSeen[u]
    <2>1. \A d \in Clients : SetsUser(d, u)' <=> SetsUser(d, u)
      BY <1>5 DEF SetsUser
    <2>2. CASE \E d \in Clients : SetsUser(d, u)
      <3>1. PICK d \in Clients : SetsUser(d, u)
        BY <2>2
      <3>2. SetsUser(d, u)' /\ NewClient(d)' = NewClient(d)
        BY <2>1, <3>1 DEF NewClient
      <3> QED BY <3>1, <3>2 DEF SeenOK
    <2>3. CASE \A d \in Clients : ~SetsUser(d, u)
      BY <2>1, <2>3 DEF SeenOK
    <2> QED BY <2>2, <2>3
  <1> QED BY <1>1, <1>2, <1>4, <1>5 DEF user2clientSeen

\* With the second it is set.
LEMMA SeenDone ==
    ASSUME IndInv, SeenOK, SeenOK', NEW c \in Clients, SetUser(c)
    PROVE  user2clientSeen' = user2clientSeen
  <1> USE DEF Goto, tables, mutexes, locals
  <1>1. pc[c] = "set_user" /\ pc' = [pc EXCEPT ![c] = "reply"] /\ q' = q
    BY DEF SetUser
  <1>2. q[c].user \in Users
    BY <1>1, QueryFacts DEF IndInv, Handling, Assigning
  <1>3. \A d \in Clients, u \in Users : SetsUser(d, u)' <=> SetsUser(d, u) /\ d # c
    BY <1>1 DEF SetsUser, IndInv, TypeOK
  <1>4. SetsUser(c, q[c].user)
    BY <1>1 DEF SetsUser
  <1>5. \A d \in Clients : SetsUser(d, q[c].user) => d = c
    BY <1>1, <1>4, Exclusion DEF IndInv, SetsUser, HoldsUser, Handling, Assigning
  <1>6. user2client' = [user2client EXCEPT ![q[c].user] = NewClient(c)]
    BY DEF SetUser
  <1>7. ASSUME NEW u \in Users
        PROVE  user2clientSeen'[u] = user2clientSeen[u]
    <2>1. CASE u = q[c].user
      <3>1. \A d \in Clients : ~SetsUser(d, u)'
        BY <1>3, <1>5, <2>1
      <3>2. user2clientSeen'[u] = user2client'[u]
        BY <3>1 DEF SeenOK
      <3> QED BY <1>2, <1>4, <1>6, <2>1, <3>2 DEF SeenOK, IndInv, TypeOK
    <2>2. CASE u # q[c].user
      <3>0. user2client'[u] = user2client[u]
        BY <1>6, <2>2 DEF IndInv, TypeOK
      <3>1. \A d \in Clients : SetsUser(d, u)' <=> SetsUser(d, u)
        BY <1>3, <2>2 DEF SetsUser
      <3>2. CASE \E d \in Clients : SetsUser(d, u)
        <4>1. PICK d \in Clients : SetsUser(d, u)
          BY <3>2
        <4>2. SetsUser(d, u)' /\ NewClient(d)' = NewClient(d)
          BY <1>1, <3>1, <4>1 DEF NewClient
        <4> QED BY <4>1, <4>2 DEF SeenOK
      <3>3. CASE \A d \in Clients : ~SetsUser(d, u)
        BY <3>0, <3>1, <3>3 DEF SeenOK
      <3> QED BY <3>2, <3>3
    <2> QED BY <2>1, <2>2
  <1> QED BY <1>7 DEF user2clientSeen

CallOf(c) ==
    IF pc[c] \in {"closed", "read"} \cup Unlocking THEN [state |-> "idle"]
    ELSE IF pc[c] \in {"set_user", "reply"}
    THEN [state |-> "answered", ok |-> ret[c], found |-> found[c]]
    ELSE [state |-> "asked", query |-> q[c]]

\* A thread changes only its own call.
LEMMA CallChange ==
    ASSUME NEW c \in Clients,
           \A d \in Clients \ {c} : /\ pc'[d] = pc[d] /\ q'[d] = q[d]
                                    /\ ret'[d] = ret[d] /\ found'[d] = found[d]
    PROVE  /\ callSeen' = [callSeen EXCEPT ![c] = CallOf(c)']
           /\ callSeen[c] = CallOf(c)
           /\ CallOf(c)' = CallOf(c) => callSeen' = callSeen
  <1>1. callSeen = [d \in Clients |-> CallOf(d)]
    BY DEF callSeen, CallOf
  <1>2. callSeen' = [d \in Clients |-> CallOf(d)']
    BY DEF callSeen, CallOf
  <1>3. \A d \in Clients \ {c} : CallOf(d)' = CallOf(d)
    BY DEF CallOf
  <1>4. ASSUME NEW d \in Clients
        PROVE  CallOf(d)' = [callSeen EXCEPT ![c] = CallOf(c)'][d]
    BY <1>1, <1>3
  <1> QED BY <1>1, <1>2, <1>4

\* Steps of a handler that the abstract service does not see: locking and
\* unlocking, tests that are passed, a seat looked at, the second assignment of
\* login and logout.
LEMMA SilentStep ==
    ASSUME IndInv, SeenOK, SeenOK', NEW c \in Clients,
           \/ LockClient(c) \/ LockUser(c) \/ LockSeat(c)
           \/ UnlockClient(c) \/ UnlockUser(c) \/ UnlockSeat(c)
           \/ Decide(c) /\ Granted(c)
           \/ ScanSeat(c) \/ SetUser(c)
    PROVE  UNCHANGED Booking!vars
  <1> USE DEF Goto, tables, mutexes, locals
  <1>t. /\ pc \in [Clients -> Handling \cup {"closed", "read"}]
        /\ ret \in [Clients -> BOOLEAN]
        /\ found \in [Clients -> SUBSET Seats]
    BY DEF IndInv, TypeOK
  <1>h. Handle(c)
    BY DEF Handle
  <1>o. \A d \in Clients \ {c} : /\ pc'[d] = pc[d] /\ q'[d] = q[d]
                                 /\ ret'[d] = ret[d] /\ found'[d] = found[d]
    BY <1>h, Footprint DEF IndInv
  <1>1. CASE LockClient(c) \/ LockUser(c) \/ LockSeat(c)
    <2>1. pc[c] \in Waiting /\ pc'[c] \in Waiting \cup {"decide"}
      BY <1>1, <1>t DEF LockClient, LockUser, LockSeat, AfterLock, Waiting
    <2>2. UNCHANGED <<tables, q, ret, found>>
      BY <1>1 DEF LockClient, LockUser, LockSeat
    <2>3. user2clientSeen' = user2clientSeen
      BY <1>o, <2>1, <2>2, SeenKept DEF Waiting
    <2>4. CallOf(c)' = CallOf(c)
      BY <2>1, <2>2 DEF CallOf, Waiting, Unlocking
    <2>5. callSeen' = callSeen
      BY <1>o, <2>4, CallChange
    <2> QED BY <2>2, <2>3, <2>5 DEF Booking!vars
  <1>2. CASE UnlockClient(c) \/ UnlockUser(c) \/ UnlockSeat(c)
    <2>1. pc[c] \in Unlocking /\ pc'[c] \in Unlocking \cup {"read"}
      BY <1>2, <1>t DEF UnlockClient, UnlockUser, UnlockSeat, Unlocking
    <2>2. UNCHANGED <<tables, q, ret, found>>
      BY <1>2 DEF UnlockClient, UnlockUser, UnlockSeat
    <2>3. user2clientSeen' = user2clientSeen
      BY <1>o, <2>1, <2>2, SeenKept DEF Unlocking
    <2>4. CallOf(c)' = CallOf(c)
      BY <2>1, <2>2 DEF CallOf
    <2>5. callSeen' = callSeen
      BY <1>o, <2>4, CallChange
    <2> QED BY <2>2, <2>3, <2>5 DEF Booking!vars
  <1>3. CASE (Decide(c) /\ Granted(c)) \/ ScanSeat(c)
    <2>1. /\ pc[c] \in {"decide", "scan"}
          /\ pc'[c] \in {"scan", "set_seat", "set_client"}
      BY <1>3, <1>t DEF Decide, ScanSeat, FirstStep
    <2>2. UNCHANGED <<tables, q>>
      BY <1>3 DEF Decide, ScanSeat
    <2>3. user2clientSeen' = user2clientSeen
      BY <1>o, <2>1, <2>2, SeenKept
    <2>4. CallOf(c)' = CallOf(c)
      BY <2>1, <2>2 DEF CallOf, Unlocking
    <2>5. callSeen' = callSeen
      BY <1>o, <2>4, CallChange
    <2> QED BY <2>2, <2>3, <2>5 DEF Booking!vars
  <1>4. CASE SetUser(c)
    <2>1. pc[c] = "set_user" /\ pc'[c] = "reply"
      BY <1>4, <1>t DEF SetUser
    <2>2. UNCHANGED <<client2user, password, seat, q, ret, found>>
      BY <1>4 DEF SetUser
    <2>3. user2clientSeen' = user2clientSeen
      BY <1>4, SeenDone
    <2>4. CallOf(c)' = CallOf(c)
      BY <2>1, <2>2 DEF CallOf, Unlocking
    <2>5. callSeen' = callSeen
      BY <1>o, <2>4, CallChange
    <2> QED BY <2>2, <2>3, <2>5 DEF Booking!vars
  <1> QED BY <1>1, <1>2, <1>3, <1>4

\* The abstract operators, in terms of the mapped variables.
LEMMA BookingFacts ==
    ASSUME NEW c \in Clients, NEW u \in Users, callSeen[c] = [state |-> "asked", query |-> q[c]]
    PROVE  /\ \A action : Booking!Pending(c, action, u) <=>
                             q[c].action = action /\ q[c].user = u
           /\ Booking!Arg(c) = q[c].arg
           /\ Booking!InSession(c, u) <=> client2user[c] = u /\ user2clientSeen[u] = c
           /\ Booking!SeatsOf(u) = SeatsOf(u)
           /\ Booking!None = None
  BY DEF Booking!Pending, Booking!Arg, Booking!InSession, Booking!SeatsOf, SeatsOf, Booking!None

\* A query takes effect, or is refused, or is answered.
LEMMA EffectStep ==
    ASSUME IndInv, SeenOK, SeenOK', NEW c \in Clients,
           \/ Decide(c) /\ ~Granted(c)
           \/ LoginClient(c) \/ LogoutClient(c) \/ SetSeat(c) \/ ScanEnd(c) \/ Reply(c)
    PROVE  \E u \in Users : \/ Booking!LogIn(c, u) \/ Booking!LogOut(c, u)
                            \/ Booking!Reserve(c, u) \/ Booking!Cancel(c, u)
                            \/ Booking!Check(c, u) \/ Booking!Refuse(c, u)
                            \/ Booking!Tell(c)
  <1> USE DEF Goto, tables, mutexes, locals
  <1>t. /\ pc \in [Clients -> Handling \cup {"closed", "read"}]
        /\ ret \in [Clients -> BOOLEAN]
        /\ found \in [Clients -> SUBSET Seats]
    BY DEF IndInv, TypeOK
  <1>h. Handle(c) /\ pc[c] \in {"decide", "set_client", "set_seat", "scan", "reply"}
    BY DEF Handle, Decide, LoginClient, LogoutClient, SetSeat, ScanEnd, Reply
  <1>o. \A d \in Clients \ {c} : /\ pc'[d] = pc[d] /\ q'[d] = q[d]
                                 /\ ret'[d] = ret[d] /\ found'[d] = found[d]
    BY <1>h, Footprint DEF IndInv
  <1>q. /\ q[c].user \in Users
        /\ q[c].action \in SeatActions \cup {"login", "logout"}
    BY <1>h, QueryFacts DEF IndInv, Handling, Assigning
  <1>c. callSeen' = [callSeen EXCEPT ![c] = CallOf(c)'] /\ callSeen[c] = CallOf(c)
    BY <1>o, CallChange
  <1>s. user2clientSeen[q[c].user] = user2client[q[c].user]
    BY <1>h DEF SeenOK, HoldsUser, Handling, Assigning
  <1> DEFINE u == q[c].user
  <1>1. CASE Reply(c)
    <2>1. CallOf(c) = [state |-> "answered", ok |-> ret[c], found |-> found[c]]
      BY <1>1 DEF Reply, CallOf, Unlocking
    <2>2. CallOf(c)' = [state |-> "idle"]
      BY <1>1, <1>t DEF Reply, CallOf, Unlocking
    <2>3. user2clientSeen' = user2clientSeen
      BY <1>1, <1>o, <1>t, SeenKept DEF Reply
    <2>4. Booking!Tell(c)
      BY <1>1, <1>c, <2>1, <2>2, <2>3 DEF Reply, Booking!Tell, Booking!Idle
    <2> QED BY <1>q, <2>4
  <1>a. CASE ~Reply(c)
    <2>0. pc[c] \in {"decide", "set_client", "set_seat", "scan"}
      BY <1>a DEF Decide, LoginClient, LogoutClient, SetSeat, ScanEnd
    <2>1. callSeen[c] = [state |-> "asked", query |-> q[c]]
      BY <1>c, <2>0 DEF CallOf, Unlocking
    <2>2. /\ \A action : Booking!Pending(c, action, u) <=> q[c].action = action
          /\ Booking!Arg(c) = q[c].arg
          /\ Booking!InSession(c, u) <=> InSession(c)
          /\ Booking!SeatsOf(u) = SeatsOf(u)
          /\ Booking!None = -1
      BY <1>q, <1>s, <2>1, BookingFacts DEF InSession
    <2>3. CASE Decide(c) /\ ~Granted(c)
      <3>1. CallOf(c)' = [state |-> "answered", ok |-> FALSE, found |-> {}]
        <4>1. ret'[c] = FALSE
          <5>1. Granted(c) \in BOOLEAN
            BY DEF Granted
          <5> QED BY <1>t, <2>3, <5>1 DEF Decide
        <4>2. found'[c] = {} /\ pc'[c] = "reply"
          BY <1>t, <2>3 DEF Decide
        <4> QED BY <4>1, <4>2 DEF CallOf, Unlocking
      <3>2. Booking!Fail(c)
        BY <1>c, <3>1 DEF Booking!Fail, Booking!Answer
      <3>3. UNCHANGED <<client2user, user2clientSeen, password, seat>>
        BY <1>o, <1>t, <2>3, SeenKept DEF Decide
      <3>4. \/ /\ Booking!Pending(c, "login", u)
               /\ \/ client2user[c] # None
                  \/ user2clientSeen[u] # None
                  \/ password[u] \notin {None, Booking!Arg(c)}
            \/ /\ Booking!Pending(c, "logout", u)
               /\ client2user[c] = None \/ user2clientSeen[u] = None
            \/ /\ Booking!Pending(c, "reserve", u)
               /\ ~(Booking!InSession(c, u) /\ seat[Booking!Arg(c)] = None)
            \/ /\ Booking!Pending(c, "cancel", u)
               /\ ~(Booking!InSession(c, u) /\ seat[Booking!Arg(c)] = u)
            \/ /\ Booking!Pending(c, "check", u)
               /\ ~(Booking!InSession(c, u) /\ Booking!SeatsOf(u) # {})
        BY <1>q, <1>s, <2>2, <2>3
           DEF Granted, MayLogin, MayLogout, MayReserve, MayCancel, SeatActions
      <3>5. Booking!Refuse(c, u)
        BY <2>2, <3>2, <3>3, <3>4 DEF Booking!Refuse
      <3> QED BY <1>q, <3>5
    <2>4. CASE LoginClient(c)
      <3>1. MayLogin(c)
        BY <2>4 DEF LoginClient, IndInv, DecisionsStand, Granted
      <3>2. ret[c] /\ found[c] = {}
        BY <2>4 DEF LoginClient, IndInv, ActionInv, Assigning
      <3>3. CallOf(c)' = [state |-> "answered", ok |-> TRUE, found |-> {}]
        BY <1>t, <2>4, <3>2 DEF LoginClient, CallOf, Unlocking
      <3>4. user2clientSeen' = [user2clientSeen EXCEPT ![u] = c]
        BY <1>o, <1>t, <2>4, SeenSet DEF LoginClient, NewClient, IndInv
      <3>5. Booking!LogIn(c, u)
        BY <1>c, <1>s, <2>2, <2>4, <3>1, <3>3, <3>4
           DEF LoginClient, MayLogin, Booking!LogIn, Booking!Succeed, Booking!Answer
      <3> QED BY <1>q, <3>5
    <2>5. CASE LogoutClient(c)
      <3>1. MayLogout(c)
        BY <2>5 DEF LogoutClient, IndInv, DecisionsStand, Granted
      <3>2. ret[c] /\ found[c] = {}
        BY <2>5 DEF LogoutClient, IndInv, ActionInv, Assigning
      <3>3. CallOf(c)' = [state |-> "answered", ok |-> TRUE, found |-> {}]
        BY <1>t, <2>5, <3>2 DEF LogoutClient, CallOf, Unlocking
      <3>4. user2clientSeen' = [user2clientSeen EXCEPT ![u] = -1]
        BY <1>o, <1>t, <2>5, SeenSet DEF LogoutClient, NewClient, IndInv
      <3>5. Booking!LogOut(c, u)
        BY <1>c, <1>s, <2>2, <2>5, <3>1, <3>3, <3>4
           DEF LogoutClient, MayLogout, Booking!LogOut, Booking!Succeed, Booking!Answer
      <3> QED BY <1>q, <3>5
    <2>6. CASE SetSeat(c)
      <3>1. Granted(c) /\ q[c].action \in {"reserve", "cancel"}
        BY <2>6 DEF SetSeat, IndInv, DecisionsStand, ActionInv
      <3>2. ret[c] /\ found[c] = {}
        BY <2>6 DEF SetSeat, IndInv, ActionInv, Assigning
      <3>3. CallOf(c)' = [state |-> "answered", ok |-> TRUE, found |-> {}]
        BY <1>t, <2>6, <3>2 DEF SetSeat, CallOf, Unlocking
      <3>4. user2clientSeen' = user2clientSeen
        BY <1>o, <1>t, <2>6, SeenKept DEF SetSeat
      <3>5. CASE q[c].action = "reserve"
        <4>1. Booking!Reserve(c, u)
          BY <1>c, <2>2, <2>6, <3>1, <3>3, <3>4, <3>5
             DEF SetSeat, Granted, MayReserve, Booking!Reserve, Booking!Succeed, Booking!Answer
        <4> QED BY <1>q, <4>1
      <3>6. CASE q[c].action = "cancel"
        <4>1. Booking!Cancel(c, u)
          BY <1>c, <2>2, <2>6, <3>1, <3>3, <3>4, <3>6
             DEF SetSeat, Granted, MayCancel, Booking!Cancel, Booking!Succeed, Booking!Answer
        <4> QED BY <1>q, <4>1
      <3> QED BY <3>1, <3>5, <3>6
    <2>7. CASE ScanEnd(c)
      <3>1. q[c].action = "check" /\ InSession(c)
        BY <2>7 DEF ScanEnd, IndInv, ActionInv, DecisionsStand, Granted
      <3>2. found[c] = SeatsOf(u)
        <4>1. found[c] = {s \in SeatsOf(u) : s < scanned[c]} /\ scanned[c] = MAXSEAT
          BY <2>7 DEF ScanEnd, IndInv, ScanIsExact
        <4>2. \A s \in Seats : s < MAXSEAT
          BY DEF Seats
        <4> QED BY <4>1, <4>2 DEF SeatsOf
      <3>3. CallOf(c)' = [state |-> "answered", ok |-> (found[c] # {}), found |-> found[c]]
        BY <1>t, <2>7 DEF ScanEnd, CallOf, Unlocking
      <3>4. user2clientSeen' = user2clientSeen
        BY <1>o, <1>t, <2>7, SeenKept DEF ScanEnd
      <3>5. CASE found[c] # {}
        <4>1. Booking!Check(c, u)
          BY <1>c, <2>2, <2>7, <3>1, <3>2, <3>3, <3>4, <3>5
             DEF ScanEnd, Booking!Check, Booking!Succeed, Booking!Answer
        <4> QED BY <1>q, <4>1
      <3>6. CASE found[c] = {}
        <4>1. Booking!Fail(c)
          BY <1>c, <3>3, <3>6 DEF Booking!Fail, Booking!Answer
        <4>2. Booking!Refuse(c, u)
          BY <2>2, <2>7, <3>1, <3>2, <3>4, <3>6, <4>1 DEF ScanEnd, Booking!Refuse
        <4> QED BY <1>q, <4>2
      <3> QED BY <3>5, <3>6
    <2> QED BY <1>a, <2>3, <2>4, <2>5, <2>6, <2>7
  <1> QED BY <1>1, <1>a

LEMMA HandleImplements ==
    ASSUME IndInv, SeenOK, SeenOK', NEW c \in Clients, Handle(c)
    PROVE  [Booking!Next]_(Booking!vars)
  <1>1. CASE \/ LockClient(c) \/ LockUser(c) \/ LockSeat(c)
             \/ UnlockClient(c) \/ UnlockUser(c) \/ UnlockSeat(c)
             \/ Decide(c) /\ Granted(c)
             \/ ScanSeat(c) \/ SetUser(c)
    BY <1>1, SilentStep
  <1>2. CASE \/ Decide(c) /\ ~Granted(c)
             \/ LoginClient(c) \/ LogoutClient(c) \/ SetSeat(c) \/ ScanEnd(c) \/ Reply(c)
    BY <1>2, EffectStep DEF Booking!Next
  <1> QED BY <1>1, <1>2 DEF Handle

LEMMA ConnectionImplements ==
    ASSUME IndInv, NEW c \in Clients,
           Accept(c) \/ HangUp(c) \/ Read(c) \/ ReadAtEnd(c)
    PROVE  [Booking!Next]_(Booking!vars)
  <1> USE DEF tables, mutexes, locals
  <1>0. UNCHANGED <<tables, locals>>
    BY ConnectionFacts DEF IndInv
  <1>o. \A d \in Clients \ {c} : /\ pc'[d] = pc[d] /\ q'[d] = q[d]
                                 /\ ret'[d] = ret[d] /\ found'[d] = found[d]
    BY <1>0, ConnectionFacts DEF IndInv, TypeOK
  <1>c. /\ callSeen' = [callSeen EXCEPT ![c] = CallOf(c)'] /\ callSeen[c] = CallOf(c)
        /\ CallOf(c)' = CallOf(c) => callSeen' = callSeen
    BY <1>o, CallChange
  <1>1. CASE pc' = pc /\ q' = q
    <2>1. user2clientSeen' = user2clientSeen
      BY <1>0, <1>1 DEF user2clientSeen, SetsUser, NewClient
    <2>2. CallOf(c)' = CallOf(c)
      BY <1>0, <1>1 DEF CallOf
    <2> QED BY <1>0, <1>c, <2>1, <2>2 DEF Booking!vars
  <1>2. CASE pc[c] \in {"closed", "read"} /\ pc'[c] \in {"closed", "read"}
    <2>1. user2clientSeen' = user2clientSeen
      BY <1>0, <1>2, <1>o, SeenKept
    <2>2. CallOf(c)' = CallOf(c)
      BY <1>2 DEF CallOf
    <2> QED BY <1>0, <1>c, <2>1, <2>2 DEF Booking!vars
  <1>3. ASSUME NEW x \in Handled, pc[c] = "read", pc'[c] = "c2u", q'[c] = x
        PROVE  Booking!Ask(c, x) /\ x \in Booking!Queries
    <2>1. user2clientSeen' = user2clientSeen
      BY <1>0, <1>3, <1>o, SeenKept
    <2>2. /\ CallOf(c) = [state |-> "idle"]
          /\ CallOf(c)' = [state |-> "asked", query |-> x]
      BY <1>3 DEF CallOf, Unlocking
    <2>3. Booking!Ask(c, x)
      BY <1>0, <1>c, <2>1, <2>2 DEF Booking!Ask, Booking!Idle, Booking!Asked
    <2> QED BY <2>3 DEF Handled, SeatActions, Booking!Queries, Booking!None
  <1>4. \/ pc' = pc /\ q' = q
        \/ pc[c] \in {"closed", "read"} /\ pc'[c] \in {"closed", "read"}
        \/ \E x \in Handled : pc[c] = "read" /\ pc'[c] = "c2u" /\ q'[c] = x
    BY ConnectionFacts DEF IndInv, TypeOK
  <1> QED BY <1>1, <1>2, <1>3, <1>4 DEF Booking!Next

LEMMA BookingInit == Init => Booking!Init
  <1> SUFFICES ASSUME Init
               PROVE  Booking!Init
    OBVIOUS
  <1>1. user2clientSeen = [u \in Users |-> None]
    BY DEF Init, user2clientSeen, SetsUser
  <1>2. callSeen = [c \in Clients |-> [state |-> "idle"]]
    BY DEF Init, callSeen
  <1> QED BY <1>1, <1>2 DEF Init, Booking!Init, Booking!None, Booking!Idle

\* Every handler takes effect at one moment, between the arrival of its query
\* and its reply: the threads of the server implement the service SeatBooking,
\* which handles whole queries one at a time.
THEOREM HandlersAreAtomic == Spec => ImplementsBooking
  <1>1. IndInv /\ SeenOK /\ SeenOK' /\ [Next]_vars => [Booking!Next]_(Booking!vars)
    <2> SUFFICES ASSUME IndInv, SeenOK, SeenOK', [Next]_vars
                 PROVE  [Booking!Next]_(Booking!vars)
      OBVIOUS
    <2>1. CASE UNCHANGED vars
      BY <2>1 DEF vars, tables, locals, Booking!vars, user2clientSeen, callSeen, SetsUser,
         NewClient
    <2>2. CASE Next
      BY <2>2, HandleImplements, ConnectionImplements DEF Next
    <2> QED BY <2>1, <2>2
  <1> QED BY ServerInvariance, SeenFacts, BookingInit, <1>1, PTL
          DEF Spec, ImplementsBooking, Booking!Spec

-----------------------------------------------------------------------------
\* The login tables, when clients log out their own user and stay to the end.

OwnQueries ==
    /\ gone = {}
    /\ \A c \in Clients :
          q[c].action = "logout" /\ pc[c] \in {"c2u", "u2c", "decide", "set_client"} =>
          client2user[c] = q[c].user
SeenInverse ==
    \A c \in Clients, u \in Users : client2user[c] = u <=> user2clientSeen[u] = c

LEMMA OwnQueriesStep ==
    ASSUME ~HangUps, ~ForeignLogouts, TypeOK, ActionInv, OwnQueries, [Next]_vars
    PROVE  OwnQueries'
  <1> USE DEF Goto, tables, mutexes, locals
  <1>t. /\ pc \in [Clients -> Handling \cup {"closed", "read"}]
        /\ client2user \in [Clients -> Users \cup {None}]
        /\ q \in [Clients -> Queries \cup {Unread}]
    BY DEF TypeOK
  <1>1. CASE UNCHANGED vars
    BY <1>1 DEF vars, OwnQueries
  <1>2. ASSUME NEW c \in Clients, Handle(c)
        PROVE  OwnQueries'
    <2>1. gone' = gone /\ q' = q
      BY <1>2 DEF Handle, LockClient, LockUser, LockSeat, Decide, LoginClient, LogoutClient,
         SetUser, SetSeat, ScanSeat, ScanEnd, Reply, UnlockClient, UnlockUser, UnlockSeat
    <2>2. \A d \in Clients \ {c} : pc'[d] = pc[d] /\ client2user'[d] = client2user[d]
      BY <1>2, Footprint
    <2>3. pc'[c] \in {"c2u", "u2c", "decide", "set_client"} =>
            /\ pc[c] \in {"c2u", "u2c", "seat", "decide"}
            /\ pc[c] = "seat" => q[c].action \in SeatActions
            /\ client2user'[c] = client2user[c]
      BY <1>2, <1>t DEF Handle, LockClient, LockUser, LockSeat, Decide, LoginClient,
         LogoutClient, SetUser, SetSeat, ScanSeat, ScanEnd, Reply, UnlockClient, UnlockUser,
         UnlockSeat, ActionInv
    <2> QED BY <2>1, <2>2, <2>3 DEF OwnQueries, SeatActions
  <1>3. ASSUME NEW c \in Clients, Accept(c)
        PROVE  OwnQueries'
    BY <1>3, <1>t DEF Accept, OwnQueries
  <1>4. ASSUME NEW c \in Clients, HangUp(c) \/ ReadAtEnd(c)
        PROVE  FALSE
    BY <1>4 DEF HangUp, ReadAtEnd, OwnQueries
  <1>5. ASSUME NEW c \in Clients, Read(c)
        PROVE  OwnQueries'
    <2>1. PICK x \in Queries : /\ x.action = "logout" => client2user[c] = x.user
                               /\ Dispatch(c, x)
      BY <1>5 DEF Read
    <2>2. /\ client2user' = client2user
          /\ pc[c] = "read"
      BY <1>5 DEF Read
    <2>3. CASE pc'[c] # "c2u"
      BY <1>t, <2>1, <2>2, <2>3, DispatchFacts DEF OwnQueries
    <2>4. CASE pc'[c] = "c2u"
      <3>1. q' = [q EXCEPT ![c] = x] /\ pc' = [pc EXCEPT ![c] = "c2u"] /\ gone' = gone
        BY <1>t, <2>1, <2>2, <2>4 DEF Dispatch, Exit, Other
      <3> QED BY <1>t, <2>1, <2>2, <3>1 DEF OwnQueries
    <2> QED BY <2>3, <2>4
  <1> QED BY <1>1, <1>2, <1>3, <1>4, <1>5 DEF Next

LEMMA SeenInverseStep ==
    ASSUME IndInv, SeenOK, SeenOK', OwnQueries, SeenInverse, [Next]_vars
    PROVE  SeenInverse'
  <1> USE DEF Goto, tables, mutexes, locals
  <1>t. /\ pc \in [Clients -> Handling \cup {"closed", "read"}]
        /\ client2user \in [Clients -> Users \cup {None}]
        /\ None \notin Clients /\ None \notin Users
    BY DEF IndInv, TypeOK, Clients, Users
  <1>1. CASE UNCHANGED vars
    BY <1>1 DEF vars, SeenInverse, user2clientSeen, SetsUser, NewClient
  <1>2. ASSUME NEW c \in Clients, LoginClient(c)
        PROVE  SeenInverse'
    <2>1. q[c].user \in Users /\ HoldsUser(c)
      BY <1>2, QueryFacts DEF LoginClient, IndInv, Handling, Assigning, HoldsUser
    <2>2. client2user[c] = None /\ user2clientSeen[q[c].user] = None
      BY <1>2, <2>1 DEF LoginClient, IndInv, DecisionsStand, Granted, MayLogin, SeenOK
    <2>3. user2clientSeen' = [user2clientSeen EXCEPT ![q[c].user] = c]
      BY <1>2, <1>t, SeenSet DEF LoginClient, NewClient, IndInv
    <2>4. client2user' = [client2user EXCEPT ![c] = q[c].user]
      BY <1>2 DEF LoginClient
    <2>5. DOMAIN user2clientSeen = Users
      BY DEF user2clientSeen
    <2> QED BY <1>t, <2>1, <2>2, <2>3, <2>4, <2>5 DEF SeenInverse
  <1>3. ASSUME NEW c \in Clients, LogoutClient(c)
        PROVE  SeenInverse'
    <2>1. q[c].user \in Users
      BY <1>3, QueryFacts DEF LogoutClient, IndInv, Handling, Assigning
    <2>2. client2user[c] = q[c].user
      BY <1>3 DEF LogoutClient, OwnQueries
    <2>3. user2clientSeen' = [user2clientSeen EXCEPT ![q[c].user] = None]
      BY <1>3, <1>t, SeenSet DEF LogoutClient, NewClient, IndInv
    <2>4. client2user' = [client2user EXCEPT ![c] = None]
      BY <1>3 DEF LogoutClient
    <2>5. DOMAIN user2clientSeen = Users
      BY DEF user2clientSeen
    <2> QED BY <1>t, <2>1, <2>2, <2>3, <2>4, <2>5 DEF SeenInverse
  <1>4. ASSUME NEW c \in Clients, SetUser(c)
        PROVE  SeenInverse'
    BY <1>4, SeenDone, ZenonT(60) DEF SetUser, SeenInverse
  <1>5. ASSUME NEW c \in Clients, Handle(c),
               ~LoginClient(c), ~LogoutClient(c), ~SetUser(c)
        PROVE  SeenInverse'
    <2>1. client2user' = client2user /\ user2client' = user2client
      BY <1>5 DEF Handle, LockClient, LockUser, LockSeat, Decide, SetSeat, ScanSeat, ScanEnd,
         Reply, UnlockClient, UnlockUser, UnlockSeat
    <2>2. pc[c] # "set_user" /\ pc'[c] # "set_user"
      BY <1>5, <1>t DEF Handle, LockClient, LockUser, LockSeat, AfterLock, Decide, FirstStep,
         SetSeat, ScanSeat, ScanEnd, Reply, UnlockClient, UnlockUser, UnlockSeat
    <2>3. \A d \in Clients \ {c} : pc'[d] = pc[d] /\ q'[d] = q[d]
      BY <1>5, Footprint DEF IndInv
    <2> QED BY <2>1, <2>2, <2>3, SeenKept DEF SeenInverse
  <1>6. ASSUME NEW c \in Clients, Accept(c) \/ HangUp(c) \/ Read(c) \/ ReadAtEnd(c)
        PROVE  SeenInverse'
    <2>1. UNCHANGED <<tables, locals>>
      BY <1>6, ConnectionFacts DEF IndInv
    <2>2. \/ pc' = pc /\ q' = q
          \/ /\ pc[c] # "set_user" /\ pc'[c] # "set_user"
             /\ \A d \in Clients \ {c} : pc'[d] = pc[d] /\ q'[d] = q[d]
      BY <1>6, <1>t, ConnectionFacts DEF IndInv, TypeOK
    <2>3. user2clientSeen' = user2clientSeen
      BY <2>1, <2>2, SeenKept DEF user2clientSeen, SetsUser, NewClient
    <2> QED BY <2>1, <2>3 DEF SeenInverse
  <1> QED BY <1>1, <1>2, <1>3, <1>4, <1>5, <1>6 DEF Next, Handle

\* As long as clients log out the user they are logged in as and do not go away
\* without the exit query, client2user and user2client are inverse.
THEOREM OwnLogoutsKeepInverse ==
    ASSUME ~HangUps, ~ForeignLogouts
    PROVE  Spec => []TablesInverse
  <1>1. Init => OwnQueries /\ SeenInverse
    BY DEF Init, OwnQueries, SeenInverse, user2clientSeen, SetsUser, Clients, Users
  <1>2. IndInv /\ SeenOK /\ SeenOK' /\ OwnQueries /\ SeenInverse /\ [Next]_vars
        => OwnQueries' /\ SeenInverse'
    BY OwnQueriesStep, SeenInverseStep DEF IndInv
  <1>3. SeenOK /\ SeenInverse => TablesInverse
    BY DEF SeenOK, SeenInverse, TablesInverse, SetsUser
  <1> QED BY ServerInvariance, SeenFacts, <1>1, <1>2, <1>3, PTL DEF Spec
=============================================================================
