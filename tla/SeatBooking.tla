---------------------------- MODULE SeatBooking ----------------------------
(***************************************************************************)
(* What the seat-reservation server promises its clients: a query that a   *)
(* client has asked takes effect at once, at some moment before it is      *)
(* answered, whatever the other clients are doing.                         *)
(***************************************************************************)
EXTENDS Integers

CONSTANTS Clients, Users, Seats, Passwords

None == -1

Queries ==
    [action : {"login"}, user : Users, arg : Passwords]
    \cup [action : {"reserve", "check", "cancel"}, user : Users, arg : Seats]
    \cup [action : {"logout"}, user : Users, arg : {None}]

VARIABLES
    client2user,  \* the user that is logged in at a client, or None
    user2client,  \* the client a user is logged in at, or None
    password,     \* the password a user has registered with, or None
    seat,         \* the user who has reserved a seat, or None
    call          \* what a client has asked or been told

vars == <<client2user, user2client, password, seat, call>>

Idle == [state |-> "idle"]
Asked(q) == [state |-> "asked", query |-> q]
Answer(ok, found) == [state |-> "answered", ok |-> ok, found |-> found]

Init ==
    /\ client2user = [c \in Clients |-> None]
    /\ user2client = [u \in Users |-> None]
    /\ password = [u \in Users |-> None]
    /\ seat = [s \in Seats |-> None]
    /\ call = [c \in Clients |-> Idle]

Pending(c, action, u) ==
    /\ call[c].state = "asked"
    /\ call[c].query.action = action
    /\ call[c].query.user = u

Arg(c) == call[c].query.arg

InSession(c, u) == client2user[c] = u /\ user2client[u] = c

SeatsOf(u) == {s \in Seats : seat[s] = u}

\* The call of client c succeeds, or fails, and is answered so.
Succeed(c, found) == call' = [call EXCEPT ![c] = Answer(TRUE, found)]
Fail(c) == call' = [call EXCEPT ![c] = Answer(FALSE, {})]

Ask(c, q) ==
    /\ call[c] = Idle
    /\ call' = [call EXCEPT ![c] = Asked(q)]
    /\ UNCHANGED <<client2user, user2client, password, seat>>

\* A user logs in at one client at a time, and a client serves one user;
\* the first login registers the password.
LogIn(c, u) ==
    /\ Pending(c, "login", u)
    /\ client2user[c] = None /\ user2client[u] = None
    /\ password[u] \in {None, Arg(c)}
    /\ client2user' = [client2user EXCEPT ![c] = u]
    /\ user2client' = [user2client EXCEPT ![u] = c]
    /\ password' = [password EXCEPT ![u] = Arg(c)]
    /\ Succeed(c, {})
    /\ UNCHANGED seat

LogOut(c, u) ==
    /\ Pending(c, "logout", u)
    /\ client2user[c] # None /\ user2client[u] # None
    /\ client2user' = [client2user EXCEPT ![c] = None]
    /\ user2client' = [user2client EXCEPT ![u] = None]
    /\ Succeed(c, {})
    /\ UNCHANGED <<password, seat>>

Reserve(c, u) ==
    /\ Pending(c, "reserve", u)
    /\ InSession(c, u)
    /\ seat[Arg(c)] = None
    /\ seat' = [seat EXCEPT ![Arg(c)] = u]
    /\ Succeed(c, {})
    /\ UNCHANGED <<client2user, user2client, password>>

Cancel(c, u) ==
    /\ Pending(c, "cancel", u)
    /\ InSession(c, u)
    /\ seat[Arg(c)] = u
    /\ seat' = [seat EXCEPT ![Arg(c)] = None]
    /\ Succeed(c, {})
    /\ UNCHANGED <<client2user, user2client, password>>

\* The list a client gets is the list of one moment.
Check(c, u) ==
    /\ Pending(c, "check", u)
    /\ InSession(c, u)
    /\ SeatsOf(u) # {}
    /\ Succeed(c, SeatsOf(u))
    /\ UNCHANGED <<client2user, user2client, password, seat>>

\* A call fails only for a reason.
Refuse(c, u) ==
    /\ \/ /\ Pending(c, "login", u)
          /\ \/ client2user[c] # None
             \/ user2client[u] # None
             \/ password[u] \notin {None, Arg(c)}
       \/ /\ Pending(c, "logout", u)
          /\ client2user[c] = None \/ user2client[u] = None
       \/ Pending(c, "reserve", u) /\ ~(InSession(c, u) /\ seat[Arg(c)] = None)
       \/ Pending(c, "cancel", u) /\ ~(InSession(c, u) /\ seat[Arg(c)] = u)
       \/ Pending(c, "check", u) /\ ~(InSession(c, u) /\ SeatsOf(u) # {})
    /\ Fail(c)
    /\ UNCHANGED <<client2user, user2client, password, seat>>

Tell(c) ==
    /\ call[c].state = "answered"
    /\ call' = [call EXCEPT ![c] = Idle]
    /\ UNCHANGED <<client2user, user2client, password, seat>>

Next ==
    \E c \in Clients :
        \/ \E q \in Queries : Ask(c, q)
        \/ \E u \in Users : \/ LogIn(c, u) \/ LogOut(c, u) \/ Reserve(c, u)
                            \/ Cancel(c, u) \/ Check(c, u) \/ Refuse(c, u)
        \/ Tell(c)

Spec == Init /\ [][Next]_vars
=============================================================================
