------------------------- MODULE ReservationServer -------------------------
(***************************************************************************)
(* The seat-reservation server pa3_server.c: one thread per connection,    *)
(* every query handled under the mutex of the client, that of the user     *)
(* the query names and, for queries about seats, that of the seat.  The    *)
(* tests of a handler and each of its assignments are steps of their own,  *)
(* so that what the mutexes protect is seen, not assumed.                  *)
(*                                                                         *)
(* A client is the slot fd-3 that a connection's descriptor gives it; a    *)
(* slot is used again when its connection is closed.  Seat and user        *)
(* numbers outside the tables are not sent.                                *)
(***************************************************************************)
EXTENDS Integers, FiniteSets

CONSTANTS
    NumClients,      \* connections at one time
    MAXUSER, MAXSEAT,
    Passwords,
    HangUps,         \* may a client go away without the exit query?
    ForeignLogouts   \* may a client log out a user that is not its own?

ASSUME ServerAssumption ==
    /\ NumClients \in Nat /\ MAXUSER \in Nat /\ MAXSEAT \in Nat
    /\ Passwords \subseteq Nat
    /\ {HangUps, ForeignLogouts} \subseteq BOOLEAN

None == -1
Clients == 1 .. NumClients
Users == 0 .. MAXUSER - 1
Seats == 0 .. MAXSEAT - 1

SeatActions == {"reserve", "check", "cancel"}

\* The queries that have a handler, the one that ends a connection, and one
\* for all that the switch of thread_func ignores.
Handled ==
    [action : {"login"}, user : Users, arg : Passwords]
    \cup [action : SeatActions, user : Users, arg : Seats]
    \cup [action : {"logout"}, user : Users, arg : {None}]
Exit == [action |-> "exit", user |-> None, arg |-> None]
Other == [action |-> "other", user |-> None, arg |-> None]
Queries == Handled \cup {Exit, Other}
\* The query variable of a thread that has not read one yet.
Unread == [action |-> "unread", user |-> None, arg |-> None]

VARIABLES
    client2user, user2client, password, seat,
    c2u_mutex, u2c_mutex, seat_mutex,  \* the client whose thread holds it, or None
    pc,      \* where the thread of a client is
    q,       \* its last query
    ret,     \* the handler's result
    found,   \* check_reservation: the seats listed in send
    scanned, \* check_reservation: the number of seats looked at
    gone     \* the clients that went away without the exit query

tables == <<client2user, user2client, password, seat>>
mutexes == <<c2u_mutex, u2c_mutex, seat_mutex>>
locals == <<ret, found, scanned>>
vars == <<tables, mutexes, pc, q, locals, gone>>

Init ==
    /\ client2user = [c \in Clients |-> None]
    /\ user2client = [u \in Users |-> None]
    /\ password = [u \in Users |-> None]
    /\ seat = [s \in Seats |-> None]
    /\ c2u_mutex = [c \in Clients |-> None]
    /\ u2c_mutex = [u \in Users |-> None]
    /\ seat_mutex = [s \in Seats |-> None]
    /\ pc = [c \in Clients |-> "closed"]
    /\ q = [c \in Clients |-> Unread]
    /\ ret = [c \in Clients |-> FALSE]
    /\ found = [c \in Clients |-> {}]
    /\ scanned = [c \in Clients |-> 0]
    /\ gone = {}

Goto(c, label) == pc' = [pc EXCEPT ![c] = label]

-----------------------------------------------------------------------------
(* Connections                                                             *)

\* The main thread: the new descriptor is the lowest that is free.
Accept(c) ==
    /\ pc[c] = "closed"
    /\ \A d \in Clients : pc[d] = "closed" => c <= d
    /\ Goto(c, "read")
    /\ UNCHANGED <<tables, mutexes, q, locals, gone>>

HangUp(c) ==
    /\ HangUps
    /\ pc[c] # "closed"
    /\ c \notin gone
    /\ gone' = gone \cup {c}
    /\ UNCHANGED <<tables, mutexes, pc, q, locals>>

\* A slip of the kind TypeOK is about: the switch falls through for the queries
\* it should ignore.
FallsThrough(c, x) ==
    /\ Goto(c, "c2u")
    /\ q' = [q EXCEPT ![c] = x]
    /\ UNCHANGED gone

\* The switch of thread_func on a query x.
Dispatch(c, x) ==
    CASE x = Exit  -> /\ Goto(c, "closed")
                      /\ q' = [q EXCEPT ![c] = Unread]
                      /\ gone' = gone \ {c}
      [] x = Other -> /\ q' = [q EXCEPT ![c] = x]
                      /\ UNCHANGED <<pc, gone>>
      [] OTHER     -> /\ Goto(c, "c2u")
                      /\ q' = [q EXCEPT ![c] = x]
                      /\ UNCHANGED gone

Read(c) ==
    /\ pc[c] = "read"
    /\ c \notin gone
    /\ \E x \in Queries :
        /\ x.action = "logout" /\ ~ForeignLogouts => client2user[c] = x.user
        /\ Dispatch(c, x)
    /\ UNCHANGED <<tables, mutexes, locals>>

\* At the end of the input read returns 0, which is not an error to the code:
\* it handles the query it has, or whatever the variable holds if it has none.
ReadAtEnd(c) ==
    /\ pc[c] = "read"
    /\ c \in gone
    /\ \E x \in IF q[c] = Unread THEN Queries ELSE {q[c]} : Dispatch(c, x)
    /\ UNCHANGED <<tables, mutexes, locals>>

-----------------------------------------------------------------------------
(* The mutexes                                                             *)

\* Slips in the locking: cancel_reservation takes the mutex of the seat before
\* that of the user; check_reservation, which changes nothing, does without
\* that of the user; login takes that of the client only.
CancelSeatFirst(mutex, action) ==
    IF mutex = "c2u" THEN (IF action = "cancel" THEN "seat" ELSE "u2c")
    ELSE IF mutex = "u2c" /\ action \in {"reserve", "check"} THEN "seat"
    ELSE IF mutex = "seat" /\ action = "cancel" THEN "u2c"
    ELSE "decide"
CheckSkipsUser(mutex, action) ==
    IF mutex = "c2u" /\ action # "check" THEN "u2c"
    ELSE IF mutex # "seat" /\ action \in SeatActions THEN "seat"
    ELSE "decide"
LoginSkipsUser(mutex, action) ==
    IF mutex = "c2u" /\ action # "login" THEN "u2c"
    ELSE IF mutex = "u2c" /\ action \in SeatActions THEN "seat"
    ELSE "decide"

\* What a handler does once it holds the mutex it has just waited for.
AfterLock(mutex, action) ==
    IF mutex = "c2u" THEN "u2c"
    ELSE IF mutex = "u2c" /\ action \in SeatActions THEN "seat"
    ELSE "decide"

LockClient(c) ==
    /\ pc[c] = "c2u"
    /\ c2u_mutex[c] = None
    /\ c2u_mutex' = [c2u_mutex EXCEPT ![c] = c]
    /\ Goto(c, AfterLock("c2u", q[c].action))
    /\ UNCHANGED <<tables, u2c_mutex, seat_mutex, q, locals, gone>>

LockUser(c) ==
    /\ pc[c] = "u2c"
    /\ u2c_mutex[q[c].user] = None
    /\ u2c_mutex' = [u2c_mutex EXCEPT ![q[c].user] = c]
    /\ Goto(c, AfterLock("u2c", q[c].action))
    /\ UNCHANGED <<tables, c2u_mutex, seat_mutex, q, locals, gone>>

LockSeat(c) ==
    /\ pc[c] = "seat"
    /\ seat_mutex[q[c].arg] = None
    /\ seat_mutex' = [seat_mutex EXCEPT ![q[c].arg] = c]
    /\ Goto(c, AfterLock("seat", q[c].action))
    /\ UNCHANGED <<tables, c2u_mutex, u2c_mutex, q, locals, gone>>

UnlockClient(c) ==
    /\ pc[c] = "unlock_c2u"
    /\ c2u_mutex' = [c2u_mutex EXCEPT ![c] = None]
    /\ Goto(c, "unlock_u2c")
    /\ UNCHANGED <<tables, u2c_mutex, seat_mutex, q, locals, gone>>

UnlockUser(c) ==
    /\ pc[c] = "unlock_u2c"
    /\ u2c_mutex' = [u2c_mutex EXCEPT ![q[c].user] = None]
    /\ Goto(c, IF q[c].action \in SeatActions THEN "unlock_seat" ELSE "read")
    /\ UNCHANGED <<tables, c2u_mutex, seat_mutex, q, locals, gone>>

UnlockSeat(c) ==
    /\ pc[c] = "unlock_seat"
    /\ seat_mutex' = [seat_mutex EXCEPT ![q[c].arg] = None]
    /\ Goto(c, "read")
    /\ UNCHANGED <<tables, c2u_mutex, u2c_mutex, q, locals, gone>>

-----------------------------------------------------------------------------
(* The handlers                                                            *)

InSession(c) ==
    /\ client2user[c] = q[c].user
    /\ user2client[q[c].user] = c

\* A slip in the tests: login does not compare the password.
AnyPassword(c) == client2user[c] = None /\ user2client[q[c].user] = None

\* The tests of each handler: none of its failure branches is taken.
MayLogin(c) ==
    /\ client2user[c] = None
    /\ user2client[q[c].user] = None
    /\ password[q[c].user] \in {None, q[c].arg}
MayLogout(c) == client2user[c] # None /\ user2client[q[c].user] # None
MayReserve(c) == InSession(c) /\ seat[q[c].arg] = None
MayCancel(c) == InSession(c) /\ seat[q[c].arg] = q[c].user

Granted(c) ==
    \/ q[c].action = "login" /\ MayLogin(c)
    \/ q[c].action = "logout" /\ MayLogout(c)
    \/ q[c].action = "reserve" /\ MayReserve(c)
    \/ q[c].action = "cancel" /\ MayCancel(c)
    \/ q[c].action = "check" /\ InSession(c)

\* The first assignment of a handler whose tests are passed.
FirstStep(action) ==
    IF action = "check" THEN "scan"
    ELSE IF action \in SeatActions THEN "set_seat" ELSE "set_client"

Decide(c) ==
    /\ pc[c] = "decide"
    /\ ret' = [ret EXCEPT ![c] = Granted(c)]
    /\ found' = [found EXCEPT ![c] = {}]
    /\ scanned' = [scanned EXCEPT ![c] = 0]
    /\ Goto(c, IF Granted(c) THEN FirstStep(q[c].action) ELSE "reply")
    /\ UNCHANGED <<tables, mutexes, q, gone>>

\* login: the password, if it is the first time, and the client's user.
LoginClient(c) ==
    /\ pc[c] = "set_client"
    /\ q[c].action = "login"
    /\ password' = [password EXCEPT ![q[c].user] = q[c].arg]
    /\ client2user' = [client2user EXCEPT ![c] = q[c].user]
    /\ Goto(c, "set_user")
    /\ UNCHANGED <<user2client, seat, mutexes, q, locals, gone>>

LogoutClient(c) ==
    /\ pc[c] = "set_client"
    /\ q[c].action = "logout"
    /\ client2user' = [client2user EXCEPT ![c] = None]
    /\ Goto(c, "set_user")
    /\ UNCHANGED <<user2client, password, seat, mutexes, q, locals, gone>>

\* The value login and logout give the entry of the user named.
NewClient(c) == IF q[c].action = "login" THEN c ELSE None

SetUser(c) ==
    /\ pc[c] = "set_user"
    /\ user2client' = [user2client EXCEPT ![q[c].user] = NewClient(c)]
    /\ Goto(c, "reply")
    /\ UNCHANGED <<client2user, password, seat, mutexes, q, locals, gone>>

SetSeat(c) ==
    /\ pc[c] = "set_seat"
    /\ seat' = [seat EXCEPT
                   ![q[c].arg] = IF q[c].action = "reserve" THEN q[c].user ELSE None]
    /\ Goto(c, "reply")
    /\ UNCHANGED <<client2user, user2client, password, mutexes, q, locals, gone>>

\* A slip in the loop over the seats: its index does not advance.
ScanStuck(c) ==
    /\ pc[c] = "scan"
    /\ scanned[c] < MAXSEAT
    /\ UNCHANGED vars

\* check_reservation looks at all seats while it holds the mutex of one.
ScanSeat(c) ==
    /\ pc[c] = "scan"
    /\ scanned[c] < MAXSEAT
    /\ found' = [found EXCEPT
                    ![c] = IF seat[scanned[c]] = q[c].user THEN @ \cup {scanned[c]} ELSE @]
    /\ scanned' = [scanned EXCEPT ![c] = @ + 1]
    /\ UNCHANGED <<tables, mutexes, pc, q, ret, gone>>

ScanEnd(c) ==
    /\ pc[c] = "scan"
    /\ scanned[c] = MAXSEAT
    /\ ret' = [ret EXCEPT ![c] = found[c] # {}]
    /\ Goto(c, "reply")
    /\ UNCHANGED <<tables, mutexes, q, found, scanned, gone>>

\* The write of the reply, after which the locals are dead.
Reply(c) ==
    /\ pc[c] = "reply"
    /\ ret' = [ret EXCEPT ![c] = FALSE]
    /\ found' = [found EXCEPT ![c] = {}]
    /\ scanned' = [scanned EXCEPT ![c] = 0]
    /\ Goto(c, "unlock_c2u")
    /\ UNCHANGED <<tables, mutexes, q, gone>>

-----------------------------------------------------------------------------
Handle(c) ==
    \/ LockClient(c) \/ LockUser(c) \/ LockSeat(c)
    \/ Decide(c) \/ LoginClient(c) \/ LogoutClient(c) \/ SetUser(c) \/ SetSeat(c)
    \/ ScanSeat(c) \/ ScanEnd(c) \/ Reply(c)
    \/ UnlockClient(c) \/ UnlockUser(c) \/ UnlockSeat(c)

Next ==
    \E c \in Clients :
        \/ Accept(c) \/ HangUp(c) \/ Read(c) \/ ReadAtEnd(c)
        \/ Handle(c)

Spec == Init /\ [][Next]_vars

\* The processor runs some thread that can run.  Nothing is assumed of which,
\* nor of the order in which a mutex is granted.
FairSpec == Spec /\ WF_vars(\E c \in Clients : Handle(c))

-----------------------------------------------------------------------------
(* Properties                                                              *)

Waiting == {"c2u", "u2c", "seat"}
Assigning == {"set_client", "set_user", "set_seat"}
Unlocking == {"unlock_c2u", "unlock_u2c", "unlock_seat"}
Handling == Waiting \cup Assigning \cup Unlocking \cup {"decide", "scan", "reply"}

\* Type invariant: every entry is a user, a client or nobody, a thread inside a
\* handler has a query that has one, and a scan stays within the seats.
TypeOK ==
    /\ client2user \in [Clients -> Users \cup {None}]
    /\ user2client \in [Users -> Clients \cup {None}]
    /\ password \in [Users -> Passwords \cup {None}]
    /\ seat \in [Seats -> Users \cup {None}]
    /\ c2u_mutex \in [Clients -> Clients \cup {None}]
    /\ u2c_mutex \in [Users -> Clients \cup {None}]
    /\ seat_mutex \in [Seats -> Clients \cup {None}]
    /\ pc \in [Clients -> Handling \cup {"closed", "read"}]
    /\ q \in [Clients -> Queries \cup {Unread}]
    /\ \A c \in Clients : pc[c] \in Handling => q[c] \in Handled
    /\ ret \in [Clients -> BOOLEAN]
    /\ found \in [Clients -> SUBSET Seats]
    /\ scanned \in [Clients -> 0 .. MAXSEAT]
    /\ gone \subseteq {c \in Clients : pc[c] # "closed"}

WaitsFor(c, d) ==
    \/ pc[c] = "c2u" /\ c2u_mutex[c] = d
    \/ pc[c] = "u2c" /\ u2c_mutex[q[c].user] = d
    \/ pc[c] = "seat" /\ seat_mutex[q[c].arg] = d

\* No threads wait for each other's mutexes: among any that wait there is one
\* whose mutex none of them holds.  The comment above login gives the order
\* c2u, u2c, seat; queries may name any user, so two handlers do meet.
NoCircularWait ==
    \A S \in SUBSET Clients :
        S # {} => \E c \in S : \A d \in S : ~WaitsFor(c, d)

\* What a handler has tested still holds when it assigns: no other handler
\* changes the tables in between, though each entry has its own mutex and a
\* query may name the user of another client.
DecisionsStand ==
    \A c \in Clients :
        /\ pc[c] \in {"set_client", "set_seat", "scan"} => Granted(c)
        /\ pc[c] = "set_user" =>
            /\ client2user[c] = IF q[c].action = "login" THEN q[c].user ELSE None
            /\ user2client[q[c].user] = None <=> q[c].action = "login"

SeatsOf(u) == {s \in Seats : seat[s] = u}

\* check_reservation reads 256 seats under the mutex of one of them, while
\* others are reserved and cancelled; its list is right all the same, because
\* the mutex of the user keeps the seats of that user as they are.
ScanIsExact ==
    \A c \in Clients :
        /\ pc[c] = "scan" =>
            found[c] = {s \in SeatsOf(q[c].user) : s < scanned[c]}
        /\ pc[c] = "reply" /\ q[c].action = "check" /\ ret[c] =>
            found[c] = SeatsOf(q[c].user)

\* The two tables are inverse to each other, outside the moment in which login
\* or logout has set the one entry and not the other (comments of lines 20, 22:
\* the user at a client, the client of a user).
TablesInverse ==
    \A u \in Users :
        \/ \E d \in Clients : pc[d] = "set_user" /\ q[d].user = u
        \/ \A c \in Clients : client2user[c] = u <=> user2client[u] = c

\* Which thread holds what, by where it is.
HoldsClient(c) == pc[c] \in Handling \ {"c2u", "unlock_u2c", "unlock_seat"}
HoldsUser(c) == pc[c] \in Handling \ {"c2u", "u2c", "unlock_seat"}
HoldsSeat(c) ==
    /\ pc[c] \in Handling \ Waiting
    /\ q[c].action \in SeatActions

MutexInv ==
    /\ \A c, d \in Clients : c2u_mutex[c] = d <=> c = d /\ HoldsClient(d)
    /\ \A u \in Users, d \in Clients :
          u2c_mutex[u] = d <=> HoldsUser(d) /\ q[d].user = u
    /\ \A s \in Seats, d \in Clients :
          seat_mutex[s] = d <=> HoldsSeat(d) /\ q[d].arg = s

\* A thread is only where the handler of its query leads, and assigns only when
\* it is going to succeed.
ActionInv ==
    \A c \in Clients :
        /\ pc[c] \in Assigning => ret[c] /\ found[c] = {}
        /\ pc[c] \in {"seat", "unlock_seat"} => q[c].action \in SeatActions
        /\ pc[c] = "set_seat" => q[c].action \in {"reserve", "cancel"}
        /\ pc[c] = "scan" => q[c].action = "check"
        /\ pc[c] \in {"set_client", "set_user"} => q[c].action \in {"login", "logout"}

\* The inductive invariant of the proofs: the mutexes are held by the threads
\* that are between lock and unlock, and by one at a time, which is why what
\* one has tested or seen cannot be changed by another.
IndInv == TypeOK /\ ActionInv /\ MutexInv /\ DecisionsStand /\ ScanIsExact

\* As long as no client goes away without the exit query, and there are queries,
\* there are replies: always again either no thread is in a handler or one of
\* them replies.  To a client that is gone the server replies again and again
\* (pa3_server.c:296-304), and the second write of that ends the process (SIGPIPE).
RepliesKeepComing ==
    [](gone = {}) =>
        \/ []<>(\A c \in Clients : pc[c] \notin Handling)
        \/ []<><<\E c \in Clients : Reply(c)>>_vars

\* Refinement of SeatBooking.  A query takes effect with the first assignment
\* of its handler; between the two of login and logout the entry of the user
\* counts as set already.
SetsUser(c, u) == pc[c] = "set_user" /\ q[c].user = u

user2clientSeen ==
    [u \in Users |->
        IF \E c \in Clients : SetsUser(c, u)
        THEN NewClient(CHOOSE c \in Clients : SetsUser(c, u))
        ELSE user2client[u]]

callSeen ==
    [c \in Clients |->
        IF pc[c] \in {"closed", "read"} \cup Unlocking THEN [state |-> "idle"]
        ELSE IF pc[c] \in {"set_user", "reply"}
        THEN [state |-> "answered", ok |-> ret[c], found |-> found[c]]
        ELSE [state |-> "asked", query |-> q[c]]]

Booking == INSTANCE SeatBooking WITH user2client <- user2clientSeen, call <- callSeen

\* The handlers are atomic: every query takes effect at one moment between its
\* arrival and its reply, with the reply that belongs to that moment.
ImplementsBooking == Booking!Spec
=============================================================================
