---------------------------- MODULE SysNetProps ----------------------------
(***************************************************************************)
(* What SYS_NET promises the layer above and the layers below it.          *)
(***************************************************************************)
EXTENDS SysNet

\* A socket SYS_NET opened is the one hdl->socket points to, and the handle is
\* in a status in which some later step closes it: no slot of NET_PRES is lost
\* (SocketOpen in DNS_RESOLVED and PEER_SENT_FIN, SocketClose everywhere else).
NoSocketLeak ==
    \A s \in Sockets :
        ~Free(s) => s = socket /\ status \in HoldsSocket

\* In every status that uses hdl->socket the slot is open: no case of
\* SYS_NET_Client_Task reads, encrypts or closes a stale handle, also when other
\* tasks close and reconnect the handle between its steps.
SocketIsLive ==
    status \in HoldsSocket =>
        socket \in Sockets /\ ~Free(socket)

\* With no event on its way the owner (the MQTT service, which keeps only what
\* the events told it) believes in a connection exactly when the handle has one.
ViewAgrees ==
    (\A c \in Callers : call[c].evt = "none") => (up <=> status \in Session)

\* A handle configured for TLS is never in a session over an unencrypted
\* socket: every way into CONNECTED goes through the negotiation.
SessionIsSecure ==
    EnableTls /\ status \in Session => socket \in Sockets /\ enc[socket] = "Secure"

\* Events alternate: CONNECTED is delivered only to an owner without a
\* connection, DISCONNECTED only to an owner with one.
EventsAlternate ==
    [][\A c \in Callers :
         call[c].evt # "none" /\ call'[c].evt = "none" =>
            /\ call[c].evt = "CONNECTED" => ~up
            /\ call[c].evt = "DISCONNECTED" => up]_vars

\* What the owner sees, as the sessions of NetSession.
SessionSeen ==
    IF status \in Session
      THEN IF up THEN "Reported" ELSE "Ready"
      ELSE IF up THEN "Ended" ELSE "None"

Sessions == INSTANCE NetSession WITH session <- SessionSeen

\* Every behaviour of the handle, seen through its status and the owner's view,
\* is a sequence of sessions properly begun, reported, ended and reported.
ImplementsSessions == Sessions!Spec

\* With enable_reconnect the handle comes back to a connection to a peer that
\* is really there, whatever (bounded) trouble happened before.
Online == status = "CONNECTED" /\ up /\ tcp[socket] = "Estab"
Recovers == <>[]Online

\* The places from which no case of SYS_NET_Client_Task leads back: the name
\* could not be looked up in SYS_NET_Open, no socket after a FIN, a reset before
\* the first poll of a new socket, a FIN that came while the status was not
\* CONNECTED.
DeadEnd ==
    \/ status = "IDLE" /\ sem = "free"
    \/ status = "DISCONNECTED" /\ socket = NoSocket
    \/ status = "CLIENT_CONNECTING" /\ tcp[socket] = "Dead"
    \/ status = "CONNECTED" /\ tcp[socket] = "CloseWait"

\* These four are all: with enable_reconnect the handle ends up connected for
\* good or in one of the dead ends.
RecoversUnlessDeadEnd == <>[]Online \/ <>[]DeadEnd

\* The safety half of it: with enable_reconnect the handle comes to rest only where a
\* case of SYS_NET_Client_Task still has something to wait for, or in a dead end. The
\* semaphore is never deleted, and taken only while its taker is in a callback; the
\* negotiation has its timer, whatever became of the one before; and at the end of
\* no handler is the status DISCONNECTED, but for the second dead end.
RestsOnlyInDeadEnds ==
    reconnect =>
        /\ sem # "deleted"
        /\ sem = Owner => call[Owner].next \in Held
        /\ status = "TLS_NEGOTIATING" => timer # "Off"
        /\ status = "DISCONNECTED" /\ sem = "free" /\ call[Owner] = Idle => DeadEnd

-----------------------------------------------------------------------------
(* Inductive invariants behind these properties *)

\* While the owner has still to reopen after a FIN, no status change of another
\* task brings the handle to a status that uses its socket.
ReopenClosed ==
    call[Owner].next = "Reopen" => status \notin HoldsSocket

SafeInv == SocketIsLive /\ SessionIsSecure /\ ReopenClosed

\* Between the two halves of a handler the handle holds no socket.
BetweenHalves ==
    call[Owner].next \in {"Reconnect", "Reopen", "ReconnectHeld"}
        => status \notin HoldsSocket

\* Before SYS_NET_Open nothing has happened.
NotOpenYet == sem = "none" => status = "IDLE" /\ call[Owner] = Idle

\* What the event on its way says of the owner's view and the handle.
EventView ==
    LET e == call[Owner].evt
    IN  /\ e = "CONNECTED" => status \in Session /\ ~up
        /\ e \in DownEvents => status \notin Session
        /\ e = "DISCONNECTED" => up
        /\ e \notin DownEvents \cup {"CONNECTED"} => (up <=> status \in Session)

\* What is left of a handler brings the handle out of DISCONNECTED again, and takes it
\* there only from SOCK_OPEN_FAILED, which needs reconnection switched off.
RestInv ==
    /\ sem = Owner <=> call[Owner].next \in Held
    /\ reconnect =>
         /\ sem # "deleted"
         /\ status # "SOCK_OPEN_FAILED" /\ call[Owner].next # "ReleaseHeld"
         /\ status = "TLS_NEGOTIATING" => timer # "Off"
         /\ status = "DISCONNECTED" =>
              call[Owner].next \in {"Reconnect", "Reopen", "ReconnectHeld"} \/ socket = NoSocket

\* Inductive when the owner is the only caller.
OwnerInv == NoSocketLeak /\ BetweenHalves /\ NotOpenYet /\ EventView

=============================================================================
