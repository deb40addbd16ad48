------------------------------ MODULE MCServer ------------------------------
(* Small instances of Server: one key, the listening descriptor 3. *)
EXTENDS Server

CONSTANTS p1, p2, k1, v1, v2

MCTwoPeers == {p1, p2}

MCListenFd == 3
MCTwoFds == {3, 4, 5}    \* room for two clients
MCOneFd == {3, 4}        \* room for one: the next accept fails
MCKeys == {k1}
MCValues == {v1, v2}
MCHandlersTwo == {"accept", "client"} \cup MCTwoPeers

Set1 == <<"set", k1, v1>>
Set2 == <<"set", k1, v2>>
Get == <<"get", k1>>
Other == <<"other">>

\* Commands the server answers or ignores.
MCWholeCommands == {Set1, Set2, Get, Other}
\* Whole commands and those it does not expect; two that arrive together make
\* the others.
MCAllCommands == {Set1, Get, Other, <<"word">>, <<"bulk">>}
MCSetAndGet == {Set1, Get}

MCFin == {"fin"}
MCFinOrReset == {"fin", "rst"}

MCClearMasks == {{}}
=============================================================================
