----------------------------- MODULE TcpServer -----------------------------
(***************************************************************************)
(* The reactor: TcpServer::start polls the listening socket and those of   *)
(* the clients, accepts, receives, cuts what it has received into lines,   *)
(* executes each line and sends the answer, all in one thread, while       *)
(* clients connect, send in pieces of any size, read late, leave or break  *)
(* off, and a signal may run TcpServer::stop in between.                   *)
(*                                                                         *)
(* What clients send is a sequence of words and of ends of lines (NL).  Of *)
(* the commands only those of the server itself are told apart here: AUTH, *)
(* PING, QUIT; any other word begins a command on the store, which answers *)
(* "data".  Sockets are external: a connection is a queue of bytes to the  *)
(* server and one of answers back.                                         *)
(***************************************************************************)
EXTENDS Integers, FiniteSets, SequencesExt

CONSTANTS
  Connections,    \* the connections clients may make, each once
  MaxFd,          \* descriptors are 1 .. MaxFd
  Words,          \* what bytes are here: words, and ends of lines
  Scripts,        \* what a client may send on a connection
  Passwords,      \* what requirepass may be; None if it is empty
  Chunk,          \* sizeof(chunk)
  SendBuffer,     \* the answers that wait in a socket for a client to read
  Interruptible,  \* where in start() a signal may come
  NL, None

Fds      == 1 .. MaxFd
Replies  == {"ok", "error", "noauth", "pong", "data", "unknown"}
Sessions == [buffer : Seq(Words), auth : BOOLEAN]

ASSUME TcpServerAssumption ==
  /\ MaxFd \in Nat /\ Chunk \in Nat \ {0} /\ SendBuffer \in Nat
  /\ Scripts \subseteq Seq(Words)
  /\ "elsewhere" \notin Connections
  /\ None \notin Connections \cup {"elsewhere"} \cup Replies \cup Sessions

VARIABLES
  pc,          \* where main() is; in start(), which loop it is in ("tested": a
               \* signal has come between the test of is_running_ and poll)
  running,     \* is_running_
  listening,   \* server_fd_ is open
  poll_fds,    \* the clients' entries of poll_fds: fd and revents
  i,           \* the entry the loop over the clients is at
  sessions,    \* sessions_: what was received and not executed, and auth
  file,        \* what each descriptor is open on
  active,      \* active_connections_ of the metrics
  requirepass,
  signal,      \* whether a signal has come: no, early, or while it served
  backlog,     \* connections that wait to be accepted
  peer,        \* the client: new, open, closed or reset
  script,      \* all that it sends
  sent,        \* how much of it has been sent
  taken,       \* how much of it recv has returned
  inbox,       \* the answers that have reached the client's socket
  unread,      \* how many of them the client has not read
  overrun      \* send has dropped an answer because the client did not read

life  == <<running, listening, signal>>
table == <<poll_fds, sessions, file, active>>
net   == <<backlog, peer, sent>>
flow  == <<taken, inbox, unread, overrun>>
given == <<requirepass, script>>
vars  == <<pc, i, life, table, net, flow, given>>

Init ==
  /\ pc = "init"
  /\ running = FALSE /\ listening = FALSE
  /\ poll_fds = << >> /\ i = 1
  /\ sessions = [fd \in Fds |-> None]
  /\ file \in [Fds -> {None, "elsewhere"}]
  /\ active = 0
  /\ requirepass \in Passwords
  /\ signal = "no"
  /\ backlog = << >>
  /\ peer = [c \in Connections |-> "new"]
  /\ script \in [Connections -> Scripts]
  /\ sent  = [c \in Connections |-> 0]
  /\ taken = [c \in Connections |-> 0]
  /\ inbox = [c \in Connections |-> << >>]
  /\ unread  = [c \in Connections |-> 0]
  /\ overrun = [c \in Connections |-> FALSE]

-----------------------------------------------------------------------------
(* Sockets                                                                 *)

FreeFds == {fd \in Fds : file[fd] = None}

\* The bytes recv can return.
Waiting(c) == SubSeq(script[c], taken[c] + 1, sent[c])

\* What poll reports of a descriptor that is open on c, or closed.
Event(c) ==
  IF c = None \/ peer[c] = "reset" THEN "err"
  ELSE IF Waiting(c) # << >> \/ peer[c] = "closed" THEN "in"
  ELSE "none"

-----------------------------------------------------------------------------
(* CommandParser::execute, up to the commands on the store                 *)

\* Mutant: whoever has not authenticated is served.
AnswerUnchecked(tokens, auth, pass) ==
  LET Says(r, a, c) == [reply |-> r, auth |-> a, close |-> c] IN
  CASE tokens = << >>     -> Says(None, auth, FALSE)
    [] tokens # << >> /\ tokens[1] = "AUTH" -> Says("ok", TRUE, FALSE)
    [] tokens # << >> /\ tokens[1] = "QUIT" -> Says("ok", auth, TRUE)
    [] OTHER -> Says("data", auth, FALSE)

\* The answer to a line, whether its session has authenticated afterwards,
\* and whether it is closed; pass is requirepass.
Answer(tokens, auth, pass) ==
  LET Says(r, a, c) == [reply |-> r, auth |-> a, close |-> c]
      cmd    == tokens[1]
      Opens  == Len(tokens) = 2 /\ (pass = None \/ tokens[2] = pass)
      locked == pass # None /\ ~auth
  IN CASE tokens = << >> -> Says(None, auth, FALSE)
       [] tokens # << >> /\ cmd = "AUTH" ->
            IF Opens THEN Says("ok", TRUE, FALSE) ELSE Says("error", auth, FALSE)
       [] tokens # << >> /\ cmd = "QUIT" -> Says("ok", auth, TRUE)
       [] tokens # << >> /\ cmd \notin {"AUTH", "QUIT"} ->
            IF locked THEN Says("noauth", auth, FALSE)
            ELSE IF cmd = "PING" THEN Says("pong", auth, FALSE)
            ELSE IF cmd = "DATA" THEN Says("data", auth, FALSE)
            ELSE Says("unknown", auth, FALSE)

-----------------------------------------------------------------------------
(* main(), and the start of start()                                        *)

\* The server object is there, and the signal handler knows it.
Construct ==
  /\ pc = "init"
  /\ pc' = "built"
  /\ UNCHANGED <<i, life, table, net, flow, given>>

\* socket, bind and listen.
Start ==
  /\ pc = "built"
  /\ \/ pc' = "poll" /\ running' = TRUE /\ listening' = TRUE
     \/ pc' = "stopped" /\ UNCHANGED <<running, listening>>
  /\ UNCHANGED <<i, signal, table, net, flow, given>>

\* stop: nothing unless the loop runs.  The sockets are closed, but the
\* loop keeps its entries of poll_fds.
CloseAll ==
  /\ listening' = FALSE
  /\ backlog' = << >>
  /\ file' = [fd \in Fds |-> IF sessions[fd] # None THEN None ELSE file[fd]]
  /\ sessions' = [fd \in Fds |-> None]

\* Mutant: the exchange expects the flag to be down.
StopExpectingFalse ==
  IF ~running THEN running' = FALSE /\ CloseAll
  ELSE UNCHANGED <<running, listening, backlog, file, sessions>>

Stop ==
  IF running THEN running' = FALSE /\ CloseAll
  ELSE UNCHANGED <<running, listening, backlog, file, sessions>>

\* SIGINT or SIGTERM.  Before start() it stops nothing.  While the lines of a
\* client are executed, the reference to its session is left dangling.  At the
\* head of the loop it comes before is_running_ is tested, or after that.
Signal ==
  /\ signal = "no"
  /\ pc \in Interruptible
  /\ Stop
  /\ signal' = IF running THEN "serving" ELSE "early"
  /\ pc' \in CASE pc = "lines" -> {"undefined"}
                [] pc = "poll"  -> {"poll", "tested"}
                [] OTHER        -> {pc}
  /\ UNCHANGED <<i, poll_fds, active, peer, sent, flow, given>>

-----------------------------------------------------------------------------
(* The loop: poll, then accept, then each client                           *)

\* is_running_ was up when it was tested.
Polls == (pc = "poll" /\ running) \/ pc = "tested"

\* poll returns because something is ready, or closed.  (Without that it
\* returns after 50 ms, and the loop looks at is_running_ again.)
Poll ==
  LET polled == [n \in DOMAIN poll_fds |->
                   [poll_fds[n] EXCEPT !.revents = Event(file[poll_fds[n].fd])]]
  IN /\ Polls
     /\ ~listening \/ backlog # << >> \/ \E n \in DOMAIN polled : polled[n].revents # "none"
     /\ poll_fds' = polled
     /\ pc' = IF backlog # << >> THEN "accept" ELSE "clients"
     /\ i' = 1
     /\ UNCHANGED <<life, sessions, file, active, net, flow, given>>

LeaveLoop ==
  /\ pc = "poll" /\ ~running
  /\ pc' = "stopped"
  /\ UNCHANGED <<i, life, table, net, flow, given>>

\* An error of poll that is not EINTR: start() returns with the flag up.
PollFails ==
  /\ Polls
  /\ pc' = "stopped"
  /\ UNCHANGED <<i, life, table, net, flow, given>>

\* main() ends, and the destructor of the server calls stop.
Finish ==
  /\ pc = "stopped"
  /\ pc' = "ended"
  /\ Stop
  /\ UNCHANGED <<i, signal, poll_fds, active, peer, sent, flow, given>>

NewSession == [buffer |-> << >>, auth |-> requirepass = None]

AcceptOne ==
  LET fd == Min(FreeFds) IN
  /\ pc = "accept" /\ listening
  /\ backlog # << >> /\ FreeFds # {}
  /\ file'     = [file EXCEPT ![fd] = Head(backlog)]
  /\ sessions' = [sessions EXCEPT ![fd] = NewSession]
  /\ poll_fds' = Append(poll_fds, [fd |-> fd, revents |-> "none"])
  /\ active'   = active + 1
  /\ backlog'  = Tail(backlog)
  /\ UNCHANGED <<pc, i, life, peer, sent, flow, given>>

\* Nobody waits, or no descriptor is free, or the socket has been closed.
AcceptNone ==
  /\ pc = "accept"
  /\ ~listening \/ backlog = << >> \/ FreeFds = {}
  /\ pc' = "clients"
  /\ UNCHANGED <<i, life, table, net, flow, given>>

\* The clients have all been looked at.
ClientsDone ==
  /\ pc = "clients" /\ i > Len(poll_fds)
  /\ pc' = "poll"
  /\ UNCHANGED <<i, life, table, net, flow, given>>

AtClient == pc = "clients" /\ i <= Len(poll_fds)
Fd   == poll_fds[i].fd
Conn == file[Fd]   \* None once stop has closed it

NothingThere ==
  /\ AtClient /\ poll_fds[i].revents = "none"
  /\ i' = i + 1
  /\ UNCHANGED <<pc, life, table, net, flow, given>>

\* Mutant: the session of a client that has left is kept.
DropKeepingSession ==
  /\ file' = [file EXCEPT ![Fd] = None]
  /\ poll_fds' = RemoveAt(poll_fds, i)
  /\ active' = active - 1
  /\ UNCHANGED sessions

\* close, sessions_.erase, poll_fds.erase; the loop stays where it is.
Drop ==
  /\ file' = [file EXCEPT ![Fd] = None]
  /\ sessions' = [sessions EXCEPT ![Fd] = None]
  /\ poll_fds' = RemoveAt(poll_fds, i)
  /\ active' = active - 1

\* Mutant: an end of file is taken for nothing to read.
FailsOnErrorOnly == Conn # None => peer[Conn] = "reset"

\* recv returns 0 or an error (it may still return data after a reset).
RecvFails ==
  Conn # None => \/ peer[Conn] = "reset"
                 \/ peer[Conn] = "closed" /\ Waiting(Conn) = << >>

HangUp ==
  /\ AtClient
  /\ \/ poll_fds[i].revents = "err"
     \/ poll_fds[i].revents = "in" /\ RecvFails
  /\ Drop
  /\ UNCHANGED <<pc, i, life, net, flow, given>>

\* Mutant: what is received takes the place of what was left.
BufferedAnew(old, new) == new

Buffered(old, new) == old \o new

Receive ==
  LET got == IF Len(Waiting(Conn)) < Chunk THEN Waiting(Conn) ELSE SubSeq(Waiting(Conn), 1, Chunk)
  IN /\ AtClient /\ poll_fds[i].revents = "in"
     /\ Conn # None /\ Waiting(Conn) # << >>
     /\ sessions' = [sessions EXCEPT ![Fd].buffer = Buffered(@, got)]
     /\ taken' = [taken EXCEPT ![Conn] = @ + Len(got)]
     /\ pc' = "lines"
     /\ UNCHANGED <<i, life, poll_fds, file, active, net, inbox, unread, overrun, given>>

-----------------------------------------------------------------------------
(* The lines of one client                                                 *)

HasLine(buffer) == \E n \in DOMAIN buffer : buffer[n] = NL

EndOfLine(buffer) ==
  CHOOSE n \in DOMAIN buffer : buffer[n] = NL /\ \A m \in 1 .. n - 1 : buffer[m] # NL

\* The line at the start of what session Fd has buffered, and its answer.
Line   == LET b == sessions[Fd].buffer IN SubSeq(b, 1, EndOfLine(b) - 1)
Rest   == LET b == sessions[Fd].buffer IN SubSeq(b, EndOfLine(b) + 1, Len(b))
Result == Answer(Line, sessions[Fd].auth, requirepass)

\* send, whose result is ignored: the answer is queued, or dropped when the
\* socket is full or the client is gone.
Send(c, reply) ==
  \/ reply = None /\ UNCHANGED <<inbox, unread, overrun>>
  \/ /\ reply # None /\ peer[c] = "open" /\ unread[c] < SendBuffer
     /\ inbox'  = [inbox EXCEPT ![c] = Append(@, reply)]
     /\ unread' = [unread EXCEPT ![c] = @ + 1]
     /\ UNCHANGED overrun
  \/ /\ reply # None /\ (peer[c] # "open" \/ unread[c] = SendBuffer)
     /\ overrun' = [overrun EXCEPT ![c] = TRUE]
     /\ UNCHANGED <<inbox, unread>>

AtLine == pc = "lines" /\ HasLine(sessions[Fd].buffer)

\* Mutant: if instead of while.
ServeOneLine ==
  /\ AtLine
  /\ Send(Conn, Result.reply)
  /\ pc' = "clients"
  /\ IF Result.close
     THEN Drop /\ UNCHANGED i
     ELSE /\ sessions' = [sessions EXCEPT ![Fd] = [buffer |-> Rest, auth |-> Result.auth]]
          /\ i' = i + 1
          /\ UNCHANGED <<file, poll_fds, active>>
  /\ UNCHANGED <<life, net, taken, given>>

\* A line is executed.  What stands behind a QUIT goes with the session.
ServeLine ==
  /\ AtLine
  /\ Send(Conn, Result.reply)
  /\ IF Result.close
     THEN Drop /\ pc' = "clients"
     ELSE /\ sessions' = [sessions EXCEPT ![Fd] = [buffer |-> Rest, auth |-> Result.auth]]
          /\ UNCHANGED <<pc, file, poll_fds, active>>
  /\ UNCHANGED <<i, life, net, taken, given>>

LinesDone ==
  /\ pc = "lines" /\ ~HasLine(sessions[Fd].buffer)
  /\ pc' = "clients"
  /\ i' = i + 1
  /\ UNCHANGED <<life, table, net, flow, given>>

\* A send to a client that has broken off raises SIGPIPE, which nobody
\* handles (or is dropped, as above: the first one after the break may be).
Killed ==
  /\ AtLine /\ Result.reply # None /\ peer[Conn] = "reset"
  /\ pc' = "killed"
  /\ UNCHANGED <<i, life, table, net, flow, given>>

-----------------------------------------------------------------------------
(* The clients, as long as start() runs                                    *)

Serving == pc \in {"poll", "tested", "accept", "clients", "lines"}

Accepted(c) == \E fd \in Fds : file[fd] = c
Queued(c)   == \E n \in DOMAIN backlog : backlog[n] = c
Attached(c) == Accepted(c) \/ Queued(c)

Connect(c) ==
  /\ Serving /\ listening /\ peer[c] = "new"
  /\ peer' = [peer EXCEPT ![c] = "open"]
  /\ backlog' = Append(backlog, c)
  /\ UNCHANGED <<pc, i, life, table, sent, flow, given>>

\* Any part of what the client has to say arrives.
Say(c) ==
  /\ Serving /\ peer[c] = "open" /\ Attached(c)
  /\ \E n \in sent[c] + 1 .. Len(script[c]) : sent' = [sent EXCEPT ![c] = n]
  /\ UNCHANGED <<pc, i, life, table, backlog, peer, flow, given>>

\* The client reads its answers.
Read(c) ==
  /\ Serving /\ peer[c] = "open" /\ unread[c] > 0
  /\ unread' = [unread EXCEPT ![c] = 0]
  /\ UNCHANGED <<pc, i, life, table, net, taken, inbox, overrun, given>>

\* The client leaves: what it has sent is still there.  Or it breaks off, and
\* what recv has not returned may be lost; so does one that has left, when an
\* answer was sent to it.
Leave(c) ==
  /\ Serving /\ Attached(c)
  /\ \/ peer[c] = "open" /\ peer' \in {[peer EXCEPT ![c] = how] : how \in {"closed", "reset"}}
     \/ peer[c] = "closed" /\ overrun[c] /\ peer' = [peer EXCEPT ![c] = "reset"]
  /\ UNCHANGED <<pc, i, life, table, backlog, sent, flow, given>>

-----------------------------------------------------------------------------
Loop ==
  \/ Poll \/ LeaveLoop
  \/ AcceptOne \/ AcceptNone
  \/ ClientsDone \/ NothingThere \/ HangUp \/ Receive
  \/ ServeLine \/ LinesDone

Next ==
  \/ Construct \/ Start \/ Signal \/ Finish
  \/ Loop \/ PollFails \/ Killed
  \/ \E c \in Connections : Connect(c) \/ Say(c) \/ Read(c) \/ Leave(c)

Spec == Init /\ [][Next]_vars

\* The thread of main() goes on.  Nothing obliges clients to do anything, or
\* a signal to come.
Fairness == WF_vars(Loop) /\ WF_vars(Finish)

FairSpec == Spec /\ Fairness

-----------------------------------------------------------------------------
(* Correctness                                                             *)

\* The variables have their types; between two rounds of poll a session has
\* no more than the beginning of a line, and the loop over the clients is at
\* one that is there when it executes lines.
TypeOK ==
  /\ pc \in {"init", "built", "poll", "tested", "accept", "clients", "lines", "stopped",
            "ended", "killed", "undefined"}
  /\ running \in BOOLEAN /\ listening \in BOOLEAN
  /\ \A n \in DOMAIN poll_fds :
       poll_fds[n].fd \in Fds /\ poll_fds[n].revents \in {"none", "in", "err"}
  /\ i \in Nat \ {0} /\ active \in Nat
  /\ file \in [Fds -> Connections \cup {None, "elsewhere"}]
  /\ pc = "lines" => i <= Len(poll_fds) /\ sessions[Fd] # None
  /\ pc = "poll" => \A fd \in Fds : sessions[fd] # None => ~HasLine(sessions[fd].buffer)

\* The table of sessions, the array given to poll and the open descriptors
\* are changed together, one after the other, in five places: while the loop
\* runs they name the same clients, each once, and as many as the metrics.
SessionsArePolled ==
  Serving /\ signal # "serving" =>
    LET polled == {poll_fds[n].fd : n \in DOMAIN poll_fds} IN
    /\ Cardinality(polled) = Len(poll_fds)
    /\ polled = {fd \in Fds : sessions[fd] # None}
    /\ polled = {fd \in Fds : file[fd] \in Connections}
    /\ active = Len(poll_fds)

\* What a client should be answered, from the bytes alone and however they
\* were cut: an answer to each of its lines, until it quits.
Hear(heard, word, pass) ==
  LET answer == Answer(heard.line, heard.auth, pass) IN
  CASE heard.over -> heard
    [] ~heard.over /\ word # NL -> [heard EXCEPT !.line = Append(@, word)]
    [] ~heard.over /\ word = NL ->
         [line |-> << >>, auth |-> answer.auth, over |-> answer.close,
          answers |-> IF answer.reply = None THEN heard.answers
                      ELSE Append(heard.answers, answer.reply)]

\* What has been heard after each word: a function on 0 .. Len(words).
HeardAfter(words, pass) ==
  LET heard[n \in 0 .. Len(words)] ==
        IF n = 0
        THEN [line |-> << >>, auth |-> pass = None, over |-> FALSE, answers |-> << >>]
        ELSE Hear(heard[n - 1], words[n], pass)
  IN heard

AnswersTo(words) == HeardAfter(words, requirepass)[Len(words)].answers

Said(c)  == SubSeq(script[c], 1, sent[c])
Heard(c) == SubSeq(script[c], 1, taken[c])

\* A client that reads its answers gets those to its own lines, in order,
\* however its bytes were cut and whoever else is served in between, or had
\* its descriptor before; and it has them all when the server polls again.
RepliesAreAnswers ==
  \A c \in Connections : ~overrun[c] =>
    /\ IsPrefix(inbox[c], AnswersTo(Heard(c)))
    /\ pc = "poll" => inbox[c] = AnswersTo(Heard(c))

\* README.md: requirepass.  Nobody is served before AUTH with the password on
\* the same connection.
AuthIsRequired ==
  requirepass # None =>
    \A c \in Connections : (\E n \in DOMAIN inbox[c] : inbox[c][n] \in {"data", "pong"}) =>
      \E n \in 1 .. taken[c] - 2 : SubSeq(script[c], n, n + 2) = <<"AUTH", requirepass, NL>>

\* A client that has not left gets the answer to every line it has sent,
\* without sending more, unless it is left in the queue for want of a free
\* descriptor, or does not read, or the server stops.
Unanswered(c) ==
  /\ Attached(c) /\ peer[c] = "open"
  /\ Len(inbox[c]) < Len(AnswersTo(Said(c)))

LinesAreAnswered ==
  \A c \in Connections :
    Unanswered(c) /\ Serving ~>
      ~Unanswered(c) \/ overrun[c] \/ ~Serving \/ (Queued(c) /\ FreeFds = {})

\* The descriptor of a client that has left is given back.
DeparturesAreNoticed ==
  \A c \in Connections :
    Accepted(c) /\ peer[c] \in {"closed", "reset"} ~> ~Accepted(c) \/ ~Serving

\* A signal that comes while the server serves ends it.
SignalEndsLoop == signal = "serving" ~> pc \in {"ended", "killed", "undefined"}

\* TcpServer.hpp:62: stop closes all connections safely, whenever it is called.
StopIsSafe == pc # "undefined"

\* README.md:180-204: redis-cli and redis-py, clients of RESP, get one answer
\* to each command they send.
OneAnswerEach ==
  \A c \in Connections :
    Len(inbox[c]) <= Cardinality({n \in 1 .. taken[c] : script[c][n] = "*1"})
=============================================================================
