---------------------------- MODULE MCTcpServer ----------------------------
(***************************************************************************)
(* What the clients of TcpServer send, for TLC.                            *)
(***************************************************************************)
EXTENDS TcpServer

Eol == "end of line"

\* Two commands in one go; a command cut off by QUIT; AUTH first; a wrong
\* password and half a command; one command; nothing.
TwoLines == <<"PING", Eol, "DATA", Eol>>
Quits    == <<"QUIT", Eol, "DATA", Eol>>
Opens    == <<"AUTH", "pw", Eol, "DATA", Eol>>
Guesses  == <<"AUTH", "no", Eol, "DATA">>
OneLine  == <<"DATA", Eol>>
Silent   == << >>
TextScripts == {TwoLines, Quits, Opens, Guesses, OneLine, Silent}

\* PING as redis-cli sends it.
RespScripts == {<<"*1", Eol, "$4", Eol, "PING", Eol>>}

AllWords == {"PING", "DATA", "QUIT", "AUTH", "pw", "no", "*1", "$4", Eol}

OpenOrLocked == {None, "pw"}
OpenOnly     == {None}

Everywhere  == {"init", "built", "poll", "accept", "clients", "lines", "stopped"}
NotInACommand == Everywhere \ {"lines"}

\* The instances: one client says much and the other little or nothing, with
\* two descriptors or with only one left.
CONSTANTS c1, c2

FamilyInit ==
  /\ Init
  /\ file[2] = None
  /\ <<file[1], requirepass, script[c1], script[c2]>> \in
       {<<None, None, TwoLines, OneLine>>, <<"elsewhere", None, Quits, OneLine>>,
        <<"elsewhere", "pw", Opens, OneLine>>, <<None, "pw", Guesses, Silent>>}

FamilySpec == FamilyInit /\ [][Next]_vars /\ Fairness
=============================================================================
