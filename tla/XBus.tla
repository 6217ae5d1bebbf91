-------------------------------- MODULE XBus ---------------------------------
(***************************************************************************)
(* Logging in to the XMPP server: the bus (x_bus.c) connects, the parser   *)
(* turns what the server sends into objects below the bus, and the classes *)
(* of those objects (stream, features, starttls, sasl, auth-plain, bind,   *)
(* iq, presence) answer from their callbacks.  All of it runs on the bus   *)
(* thread; one step of the model is one event of the parser.               *)
(*                                                                         *)
(* An element opens an object: the one found among the children of the     *)
(* current object, or a new one.  What an earlier stream left behind is    *)
(* therefore found again, and x_bus_reset_stream only drops one reference  *)
(* of the first stream: streams lists the stream objects of the bus that   *)
(* are alive, oldest first, each with its references and children.         *)
(*                                                                         *)
(* The server is not part of the repository.  It speaks the protocol of    *)
(* RFC 6120: it offers features after each stream header, answers every    *)
(* request, and closes the connection when the TLS handshake fails.        *)
(***************************************************************************)
EXTENDS Integers, Sequences, SequencesExt

CONSTANTS Offers,       \* features before login, in the order they are listed
          Mechanisms,   \* sets of SASL mechanisms a server may offer
          MaxRejects,   \* logins refused on one connection
          MaxRestarts   \* connections after the first one

\* Features before login are starttls and mechanisms, and the bounds are numbers.
ASSUME ServerAssumption ==
    /\ Offers \subseteq Seq({"starttls", "mechanisms"})
    /\ \A ms \in Mechanisms : ms \subseteq {"PLAIN", "DIGEST-MD5"}
    /\ MaxRejects \in Nat /\ MaxRestarts \in Nat

VARIABLES conn,      \* the TCP connection
          tls,       \* the bus writes to the TLS transport
          streams,   \* stream objects below the bus
          path,      \* regs.r_obj, as the names from the bus down to it
          shown,     \* presence stanzas written on this connection
          out,       \* requests on their way to the server
          wire,      \* parser events on their way to the bus
          srv,       \* what the server knows of this connection
          restarts   \* connections made after the first one

bus == <<tls, streams, path, shown>>
vars == <<conn, bus, out, wire, srv, restarts>>

Children == {"features", "proceed", "tls-failure", "success", "failure", "iq"}
BindStates == {"absent", "BIND_SENT", "BIND_OK"}
Streams == [rc : Int,                                  \* refcount
            kids : SUBSET (Children \cup {"presence"}),
            listed : SUBSET {"starttls", "mechanisms"},
            mechs : SUBSET {"PLAIN", "DIGEST-MD5"},    \* <mechanism> children
            msgslot : {"none", "starttls", "auth"},    \* of the features
            bind : [{"features", "iq"} -> BindStates], \* $bind_state
            jid : SUBSET {"features", "iq"}]           \* binds with a <jid>
Requests == {"header", "starttls", "auth", "bind", "session", "presence"}
Events == [op : {"open", "leaf", "close"},
           name : Children \cup {"stream", "starttls", "mechanisms", "bind",
                                 "PLAIN", "DIGEST-MD5", "jid"}]
Paths ==
    {<<>>, <<"stream">>} \cup {<<"stream", c>> : c \in Children}
    \cup {<<"stream", "features", f>> : f \in {"starttls", "mechanisms", "bind"}}
    \cup {<<"stream", "iq", "bind">>}

\* The cursor of the parser is at an object the tree can hold, and the first
\* stream, the one the parser works in, holds at least one reference.
TypeOK ==
    /\ conn \in {"off", "up", "lost"}
    /\ tls \in BOOLEAN
    /\ streams \in Seq(Streams)
    /\ \A i \in DOMAIN streams : streams[i].rc > 0
    /\ path \in Paths
    /\ path # <<>> => streams # <<>>
    /\ shown \in Nat
    /\ out \in Seq(Requests)
    /\ wire \in Seq(Events)
    /\ srv \in [offer : Offers, mechs : Mechanisms, open : BOOLEAN, tls : BOOLEAN,
                authed : BOOLEAN, rejects : 0 .. MaxRejects,
                bound : BOOLEAN, refusals : Nat]
    /\ restarts \in 0 .. MaxRestarts

NewStream ==
    [rc |-> 2, kids |-> {}, listed |-> {}, mechs |-> {}, msgslot |-> "none",
     bind |-> [p \in {"features", "iq"} |-> "absent"], jid |-> {}]

NewServer(offer, mechs) ==
    [offer |-> offer, mechs |-> mechs, open |-> FALSE, tls |-> FALSE,
     authed |-> FALSE, rejects |-> 0, bound |-> FALSE, refusals |-> 0]

Init ==
    /\ conn = "off"
    /\ tls = FALSE
    /\ streams = <<>>
    /\ path = <<>>
    /\ shown = 0
    /\ out = <<>>
    /\ wire = <<>>
    /\ srv \in {NewServer(o, ms) : o \in Offers, ms \in Mechanisms}
    /\ restarts = 0

-----------------------------------------------------------------------------
(* The bus. *)

\* x_bus_write: what is written to a connection that is lost goes nowhere.
Written(ms) == IF conn = "up" THEN out \o ms ELSE out

\* _REFPUT of the first stream
PutFirst(ss) ==
    IF ss = <<>> THEN ss
    ELSE IF Head(ss).rc = 1 THEN Tail(ss)
    ELSE [ss EXCEPT ![1].rc = @ - 1]

\* stream_append: a stream that is appended writes its header.
Published(up) == IF up THEN Append(out, "header") ELSE <<>>

\* Mutation: the cursor is not moved back to the bus.
ResetStreamKeepsCursor(up) ==
    /\ streams' = Append(PutFirst(streams), NewStream)
    /\ path' = IF path = <<>> THEN path ELSE Front(path)
    /\ out' = Published(up)

\* x_bus_reset_stream, on a connection that is up or not: the first stream is
\* put, the cursor goes back to the bus, and a new stream is appended.
ResetStream(up) ==
    /\ streams' = Append(PutFirst(streams), NewStream)
    /\ path' = <<>>
    /\ out' = Published(up)

\* __x_bus_hotstart: connect on the default transport and start a stream; the
\* first time, and again after the connection broke.
Hotstart ==
    /\ \/ conn = "off" /\ UNCHANGED restarts
       \/ conn = "lost" /\ restarts < MaxRestarts /\ restarts' = restarts + 1
    /\ conn' = "up"
    /\ tls' = FALSE
    /\ ResetStream(TRUE)
    /\ shown' = 0
    /\ wire' = <<>>
    /\ srv' \in {NewServer(o, ms) : o \in Offers, ms \in Mechanisms}

\* The connection breaks; part of what the server sent may still be read.
Lose ==
    /\ conn = "up"
    /\ conn' = "lost"
    /\ out' = <<>>
    /\ \E n \in 0 .. Len(wire) : wire' = SubSeq(wire, 1, n)
    /\ UNCHANGED <<bus, srv, restarts>>

-----------------------------------------------------------------------------
(* __x_bus_objopen *)

Opens(name) == [op |-> "open", name |-> name]
Closes(name) == [op |-> "close", name |-> name]

\* __x_bus_on_signal_data hands what was read to the parser.
Reads(op, name) ==
    /\ wire # <<>>
    /\ Head(wire) = [op |-> op, name |-> name]
    /\ wire' = Tail(wire)
    /\ UNCHANGED <<conn, srv, restarts>>

First == streams[1]
WithFirst(s) == [streams EXCEPT ![1] = s]

Within(name) == path' = Append(path, name)

\* Every stream object has the server's domain as "remote", so stream_match
\* picks the first one.
OpenStream ==
    /\ Reads("open", "stream")
    /\ Within("stream")
    /\ UNCHANGED <<tls, streams, shown, out>>

\* A child of the stream: found again, or appended, which takes a reference.
OpenChild(c) ==
    /\ Reads("open", c)
    /\ Within(c)
    /\ streams' = IF c \in First.kids THEN streams
                  ELSE WithFirst([First EXCEPT !.kids = @ \cup {c}, !.rc = @ + 1])
    /\ UNCHANGED <<tls, shown, out>>

\* features_tx: the first message is kept.
Kept(s, m) == IF s.msgslot = "none" THEN [s EXCEPT !.msgslot = m] ELSE s

\* starttls below features: tls_append asks for TLS, when the object is new.
OpenStarttls ==
    /\ Reads("open", "starttls")
    /\ Within("starttls")
    /\ streams' = IF "starttls" \in First.listed THEN streams
                  ELSE WithFirst([Kept(First, "starttls") EXCEPT
                                     !.listed = @ \cup {"starttls"}])
    /\ UNCHANGED <<tls, shown, out>>

OpenMechanisms ==
    /\ Reads("open", "mechanisms")
    /\ Within("mechanisms")
    /\ streams' = WithFirst([First EXCEPT !.listed = @ \cup {"mechanisms"}])
    /\ UNCHANGED <<tls, shown, out>>

\* <mechanism> and <jid>: plain objects with a text, never found again.
Leaf(name) ==
    /\ Reads("leaf", name)
    /\ streams' = WithFirst(IF name = "jid"
                            THEN [First EXCEPT !.jid = @ \cup {path[2]}]
                            ELSE [First EXCEPT !.mechs = @ \cup {name}])
    /\ UNCHANGED <<tls, path, shown, out>>

\* Mutation: one request is sent for all bind objects, by the first of them.
OpenBindOnce ==
    /\ Reads("open", "bind")
    /\ Within("bind")
    /\ IF \A p \in {"features", "iq"} : First.bind[p] = "absent"
       THEN /\ streams' = WithFirst([First EXCEPT !.bind[path[2]] = "BIND_SENT"])
            /\ out' = Written(<<"bind">>)
       ELSE UNCHANGED <<streams, out>>
    /\ UNCHANGED <<tls, shown>>

\* bind below features or below an iq: bind_on_assign sends the request unless
\* this very object has sent one.
OpenBind ==
    /\ Reads("open", "bind")
    /\ Within("bind")
    /\ IF First.bind[path[2]] = "absent"
       THEN /\ streams' = WithFirst([First EXCEPT !.bind[path[2]] = "BIND_SENT"])
            /\ out' = Written(<<"bind">>)
       ELSE UNCHANGED <<streams, out>>
    /\ UNCHANGED <<tls, shown>>

-----------------------------------------------------------------------------
(* Closing an element calls commit of its object. *)

\* __x_bus_objclose: the cursor goes to the parent first.
Leaves == path' = Front(path)

\* Mutation: auth is written at once instead of going through features_tx.
CloseMechanismsAtOnce ==
    /\ Reads("close", "mechanisms")
    /\ Leaves
    /\ out' = IF "PLAIN" \in First.mechs THEN Written(<<"auth">>) ELSE out
    /\ UNCHANGED <<tls, streams, shown>>

\* Mutation: the last message is kept instead of the first.
CloseMechanismsLastWins ==
    /\ Reads("close", "mechanisms")
    /\ Leaves
    /\ streams' = IF "PLAIN" \in First.mechs
                  THEN WithFirst([First EXCEPT !.msgslot = "auth"])
                  ELSE streams
    /\ UNCHANGED <<tls, shown, out>>

\* auth_plain_on_append: auth goes through features_tx.
AuthPlain(s) == Kept(s, "auth")

\* sasl_exit of mechanisms: with PLAIN among them, an auth-plain object is
\* appended to the features.
CloseMechanisms ==
    /\ Reads("close", "mechanisms")
    /\ Leaves
    /\ streams' = IF "PLAIN" \in First.mechs THEN WithFirst(AuthPlain(First))
                  ELSE streams
    /\ UNCHANGED <<tls, shown, out>>

\* features_exit: the message that was kept is sent.
CloseFeatures ==
    /\ Reads("close", "features")
    /\ Leaves
    /\ out' = IF First.msgslot = "none" THEN out ELSE Written(<<First.msgslot>>)
    /\ streams' = WithFirst([First EXCEPT !.msgslot = "none"])
    /\ UNCHANGED <<tls, shown>>

\* xmpp_start_tls needs the server at the other end.
Handshakes == IF conn = "up" THEN BOOLEAN ELSE {FALSE}

\* tls_exit of proceed: handshake, and a new stream whatever came of it.  A
\* server that could not finish the handshake closes the connection.
CloseProceed ==
    /\ wire # <<>>
    /\ Head(wire) = Closes("proceed")
    /\ wire' = Tail(wire)
    /\ \E ok \in Handshakes :
          /\ tls' = (tls \/ ok)
          /\ conn' = IF ok THEN conn ELSE "lost"
          /\ srv' = IF ok THEN [srv EXCEPT !.tls = TRUE, !.open = FALSE] ELSE srv
          /\ ResetStream(ok)
    /\ UNCHANGED <<shown, restarts>>

\* sasl_exit of success and of failure: both start a new stream.
CloseOutcome(c) ==
    /\ Reads("close", c)
    /\ ResetStream(conn = "up")
    /\ UNCHANGED <<tls, shown>>

\* presence_on_append: a presence object below the stream announces the user.
Announced(s) == [s EXCEPT !.kids = @ \cup {"presence"}, !.rc = @ + 1]

\* Mutation: the object stays in the state it was in when it asked.
CloseBindStaysSent ==
    /\ Reads("close", "bind")
    /\ Leaves
    /\ IF First.bind[path[2]] = "BIND_SENT" /\ path[2] \in First.jid
       THEN /\ streams' = WithFirst(Announced(First))
            /\ out' = Written(<<"session", "presence">>)
            /\ shown' = shown + 1
       ELSE UNCHANGED <<streams, out, shown>>
    /\ UNCHANGED tls

\* Mutation: the jid is not looked for.
CloseBindEager ==
    /\ Reads("close", "bind")
    /\ Leaves
    /\ IF First.bind[path[2]] = "BIND_SENT"
       THEN /\ streams' = WithFirst([Announced(First) EXCEPT !.bind[path[2]] = "BIND_OK"])
            /\ out' = Written(<<"session", "presence">>)
            /\ shown' = shown + 1
       ELSE UNCHANGED <<streams, out, shown>>
    /\ UNCHANGED tls

\* bind_exit: an object that asked and got a jid requests the session and
\* appends a presence object to the stream.
CloseBind ==
    /\ Reads("close", "bind")
    /\ Leaves
    /\ IF First.bind[path[2]] = "BIND_SENT" /\ path[2] \in First.jid
       THEN /\ streams' = WithFirst([Announced(First) EXCEPT !.bind[path[2]] = "BIND_OK"])
            /\ out' = Written(<<"session", "presence">>)
            /\ shown' = shown + 1
       ELSE UNCHANGED <<streams, out, shown>>
    /\ UNCHANGED tls

\* starttls, iq and the refusal of TLS: their commit does nothing.
CloseOther(c) ==
    /\ Reads("close", c)
    /\ Leaves
    /\ UNCHANGED <<tls, streams, shown, out>>

-----------------------------------------------------------------------------
(* The server. *)

Element(name, inner) == <<Opens(name)>> \o inner \o <<Closes(name)>>
Texts(S) == [i \in 1 .. Len(SetToSeq(S)) |-> [op |-> "leaf", name |-> SetToSeq(S)[i]]]

Feature(f) == Element(f, IF f = "mechanisms" THEN Texts(srv.mechs) ELSE <<>>)

OfferNow ==
    IF srv.authed THEN <<"bind">>
    ELSE IF srv.tls THEN <<"mechanisms">>
    ELSE srv.offer

SrvReads(m) == conn = "up" /\ out # <<>> /\ Head(out) = m

SrvSends(es) ==
    /\ wire' = wire \o es
    /\ out' = Tail(out)
    /\ UNCHANGED <<conn, bus, restarts>>

\* A header is answered with the server's own and the features.  A header in
\* the middle of a stream (the client sends one after a refused login) is an
\* error for a strict server.
SrvHeader ==
    /\ SrvReads("header")
    /\ \/ /\ SrvSends(<<Opens("stream")>>
                      \o Element("features", FlattenSeq([i \in DOMAIN OfferNow |->
                                                            Feature(OfferNow[i])])))
          /\ srv' = [srv EXCEPT !.open = TRUE]
       \/ /\ srv.open
          /\ conn' = "lost"
          /\ out' = <<>>
          /\ UNCHANGED <<bus, wire, srv, restarts>>

SrvStarttls ==
    /\ SrvReads("starttls")
    /\ UNCHANGED srv
    /\ \/ SrvSends(Element("proceed", <<>>))
       \/ SrvSends(Element("tls-failure", <<>>))

SrvAuth ==
    /\ SrvReads("auth")
    /\ \/ /\ SrvSends(Element("success", <<>>))
          /\ srv' = [srv EXCEPT !.authed = TRUE, !.open = FALSE]
       \/ /\ srv.rejects < MaxRejects
          /\ SrvSends(Element("failure", <<>>))
          /\ srv' = [srv EXCEPT !.rejects = @ + 1]

\* A bind request is granted or refused; both answers contain <bind>.
SrvBind ==
    /\ SrvReads("bind")
    /\ \/ /\ SrvSends(Element("iq", Element("bind", Texts({"jid"}))))
          /\ srv' = [srv EXCEPT !.bound = TRUE]
       \/ /\ SrvSends(Element("iq", Element("bind", <<>>)))
          /\ srv' = [srv EXCEPT !.refusals = @ + 1]

SrvSession ==
    /\ SrvReads("session")
    /\ SrvSends(Element("iq", <<>>))
    /\ UNCHANGED srv

SrvPresence ==
    /\ SrvReads("presence")
    /\ SrvSends(<<>>)
    /\ UNCHANGED srv

-----------------------------------------------------------------------------

BusStep ==
    \/ OpenStream \/ OpenStarttls \/ OpenMechanisms \/ OpenBind
    \/ \E c \in Children : OpenChild(c)
    \/ \E name \in {"PLAIN", "DIGEST-MD5", "jid"} : Leaf(name)
    \/ CloseMechanisms \/ CloseFeatures \/ CloseProceed \/ CloseBind
    \/ \E c \in {"success", "failure"} : CloseOutcome(c)
    \/ \E c \in {"starttls", "iq", "tls-failure"} : CloseOther(c)

ServerStep ==
    SrvHeader \/ SrvStarttls \/ SrvAuth \/ SrvBind \/ SrvSession \/ SrvPresence

Next == Hotstart \/ Lose \/ BusStep \/ ServerStep

\* The event loop handles what arrives and the server answers; connections
\* need not break.
Fairness == WF_vars(Hotstart) /\ WF_vars(BusStep) /\ WF_vars(ServerStep)

Spec == Init /\ [][Next]_vars /\ Fairness

-----------------------------------------------------------------------------
(* Properties. *)

Negotiation == {"header", "starttls", "auth"}

\* Until the login is done client and server take turns: a header, starttls or
\* auth is written only when everything the server sent has been handled and
\* no other request is unanswered.  features_tx and features_exit are there to
\* make it so.
TakesTurns ==
    (\E i \in DOMAIN out : out[i] \in Negotiation) => Len(out) = 1 /\ wire = <<>>

\* The server of the first connection lists starttls before its mechanisms.  On
\* later connections features_tx may find a message in the slot that the broken
\* one left there, and TLS then does not come first (see RestartLogsIn).
AsksForTls == restarts = 0 /\ Head(srv.offer) = "starttls"

\* When a server lists starttls before its mechanisms, no auth is written to
\* the plain transport.
TlsBeforeAuth == AsksForTls /\ (\E i \in DOMAIN out : out[i] = "auth") => tls

\* The answers to both bind requests together start one session: presence is
\* sent once, and only to a server that has bound a resource.
PresenceOnce == shown <= 1 /\ (shown = 1 => srv.bound)

Refused ==
    \/ "PLAIN" \notin srv.mechs
    \/ srv.refusals > 1
    \/ \E i \in DOMAIN streams : "tls-failure" \in streams[i].kids

\* The first connection, if it stays up and its server accepts the login, ends with the
\* presence of the user being sent.
LoginCompletes ==
    conn = "up" /\ restarts = 0 ~> shown > 0 \/ conn = "lost" \/ Refused

\* How far the connection has come, as Login sees it.
Stage ==
    CASE conn # "up" -> "down"
      [] conn = "up" /\ shown > 0 -> "online"
      [] conn = "up" /\ shown = 0 /\ srv.bound -> "bound"
      [] conn = "up" /\ shown = 0 /\ srv.authed /\ ~srv.bound -> "authenticated"
      [] OTHER -> "up"

Abstract == INSTANCE Login WITH
    stage <- Stage,
    secured <- conn = "up" /\ tls,
    tlsFirst <- AsksForTls

\* Every connection, also one made after another broke and over the streams it
\* left behind, goes through the stages of Login in their order: TLS before
\* authentication where AsksForTls, then the resource, presence last, each once.
LogsInInOrder == Abstract!Spec

\* "This handles finalize call and starts up bus": a connection that is made
\* after the first one broke gets the user online as well.
RestartLogsIn ==
    restarts = MaxRestarts /\ conn = "up" ~> shown > 0 \/ conn = "lost" \/ Refused

=============================================================================
