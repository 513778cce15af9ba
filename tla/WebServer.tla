----------------------------- MODULE WebServer -----------------------------
(***************************************************************************)
(* The web server (11. web server/web_server.c): one process that serves   *)
(* one connection at a time.  It reads lines up to an empty one or the end *)
(* of file, takes the path from the first, and answers with it.            *)
(*                                                                         *)
(* A line is a "request" (three words: method, path, version), "bad"       *)
(* (fewer, as a request cut short is), a "header" or "blank"; a client's   *)
(* path is the client itself.  method, path and version are uninitialised  *)
(* when the loop body is entered: they hold what the last turn left there, *)
(* or anything else (Junk).                                                *)
(***************************************************************************)
EXTENDS Integers, Sequences

CONSTANTS
    Browsers,   \* clients, one connection each
    Scripts,    \* the lines a client may send
    Junk,       \* bytes nobody sent
    NoReply

VARIABLES
    web,         \* "accept", "read", "respond" or "ended"
    wconn,       \* the client of conn
    first_line,
    path,
    backlog,
    script,      \* the lines each client is going to send
    nsent, nread,  \* how many were sent, and read
    browser,     \* "new", "open", "shut" (sends no more) or "left"
    page,        \* the path each client was answered with
    served       \* clients whose connection the server has closed

clientVars == <<backlog, script, nsent, browser>>
webVars    == <<web, wconn, first_line, path, nread, page, served, clientVars>>

WebInit ==
    /\ web = "accept" /\ wconn = Junk /\ first_line = FALSE /\ path = Junk
    /\ backlog = <<>>
    /\ script \in [Browsers -> Scripts]
    /\ nsent = [c \in Browsers |-> 0] /\ nread = [c \in Browsers |-> 0]
    /\ browser = [c \in Browsers |-> "new"]
    /\ page = [c \in Browsers |-> NoReply]
    /\ served = {}

-----------------------------------------------------------------------------
(* Clients (external)                                                      *)

BrowserConnect(c) ==
    /\ browser[c] = "new" /\ web # "ended"
    /\ browser' = [browser EXCEPT ![c] = "open"]
    /\ backlog' = Append(backlog, c)
    /\ UNCHANGED <<web, wconn, first_line, path, nread, page, served, script, nsent>>

BrowserSend(c) ==
    /\ browser[c] = "open" /\ nsent[c] < Len(script[c])
    /\ nsent' = [nsent EXCEPT ![c] = @ + 1]
    /\ UNCHANGED <<web, wconn, first_line, path, nread, page, served,
                   script, backlog, browser>>

\* The client ends its side, or the whole connection, at any point.
BrowserEnds(c) ==
    /\ \/ browser[c] = "open" /\ browser' = [browser EXCEPT ![c] = "shut"]
       \/ browser[c] \in {"open", "shut"} /\ browser' = [browser EXCEPT ![c] = "left"]
    /\ UNCHANGED <<web, wconn, first_line, path, nread, page, served,
                   script, backlog, nsent>>

-----------------------------------------------------------------------------
(* main's loop                                                             *)

\* first_line declared outside the loop and never set again.
AcceptStaleFlag ==
    /\ web = "accept" /\ backlog # <<>>
    /\ wconn' = Head(backlog) /\ backlog' = Tail(backlog)
    /\ first_line' = (path = Junk)
    /\ UNCHANGED path
    /\ web' = "read"
    /\ UNCHANGED <<nread, page, served, script, nsent, browser>>

Accept ==
    /\ web = "accept" /\ backlog # <<>>
    /\ wconn' = Head(backlog) /\ backlog' = Tail(backlog)
    /\ first_line' = TRUE
    /\ path' \in {path, Junk}
    /\ web' = "read"
    /\ UNCHANGED <<nread, page, served, script, nsent, browser>>

\* dup() or fdopen() fails: the connection is closed unread.
FdopenFails ==
    /\ web = "accept" /\ backlog # <<>>
    /\ backlog' = Tail(backlog)
    /\ served' = served \cup {Head(backlog)}
    /\ UNCHANGED <<web, wconn, first_line, path, nread, page, script, nsent, browser>>

Line == script[wconn][nread[wconn] + 1]

\* fgets, without the break at the empty line.
ReadLineOn ==
    /\ web = "read" /\ nread[wconn] < nsent[wconn]
    /\ nread' = [nread EXCEPT ![wconn] = @ + 1]
    /\ IF first_line /\ Line # "blank"
       THEN /\ path' = IF Line = "request" THEN wconn ELSE path
            /\ first_line' = FALSE
       ELSE UNCHANGED <<path, first_line>>
    /\ UNCHANGED <<web, wconn, page, served, clientVars>>

\* fgets returns a line.  A first line with fewer than three words ends the
\* whole program.
ReadLine ==
    /\ web = "read" /\ nread[wconn] < nsent[wconn]
    /\ nread' = [nread EXCEPT ![wconn] = @ + 1]
    /\ \/ /\ Line = "blank"
          /\ web' = "respond"
          /\ UNCHANGED <<path, first_line, served>>
       \/ /\ Line # "blank" /\ ~first_line
          /\ UNCHANGED <<web, path, first_line, served>>
       \/ /\ Line = "request" /\ first_line
          /\ path' = wconn
          /\ first_line' = FALSE
          /\ UNCHANGED <<web, served>>
       \/ /\ Line \in {"bad", "header"} /\ first_line
          /\ web' = "ended"               \* exit(1)
          /\ served' = Browsers
          /\ UNCHANGED <<path, first_line>>
    /\ UNCHANGED <<wconn, page, clientVars>>

\* fgets returns NULL: the client ended its side, or reset the connection with
\* lines still unread.
ReadEof ==
    /\ web = "read"
    /\ \/ nread[wconn] = nsent[wconn] /\ browser[wconn] = "shut"
       \/ browser[wconn] = "left"
    /\ web' = "respond"
    /\ UNCHANGED <<wconn, first_line, path, nread, page, served, clientVars>>

\* The answer repeats path, whatever is in it.
Respond ==
    /\ web = "respond"
    /\ page' = IF browser[wconn] = "left" THEN page ELSE [page EXCEPT ![wconn] = path]
    /\ served' = served \cup {wconn}
    /\ web' = "accept"
    /\ UNCHANGED <<wconn, first_line, path, nread, clientVars>>

\* write() to a client that reset the connection: SIGPIPE is not ignored.
RespondKilled ==
    /\ web = "respond" /\ browser[wconn] = "left"
    /\ served' = Browsers
    /\ web' = "ended"
    /\ UNCHANGED <<wconn, first_line, path, nread, page, clientVars>>

WebStep == Accept \/ FdopenFails \/ ReadLine \/ ReadEof \/ Respond \/ RespondKilled

WebNext ==
    \/ \E c \in Browsers : BrowserConnect(c) \/ BrowserSend(c) \/ BrowserEnds(c)
    \/ WebStep

WebSpec == WebInit /\ [][WebNext]_webVars

\* The server is scheduled; nothing is assumed of the clients.
WebFairness == WF_webVars(WebStep)

-----------------------------------------------------------------------------
(* Properties                                                              *)

\* A client that sent a request line is answered with its own path, never with
\* one that an earlier connection left in the buffer.
OwnPath ==
    \A c \in Browsers :
        page[c] # NoReply /\ nread[c] > 0 /\ script[c][1] = "request" => page[c] = c

\* The client has said all the server waits for.
Finished(c) ==
    \/ browser[c] \in {"shut", "left"}
    \/ \E n \in 1 .. nsent[c] : script[c][n] = "blank"

\* From any point on, every client is finished with (answered, given up by
\* fdopen, or the program has ended) unless one that has not said all it has to
\* keeps the only process waiting.
WebAnswers ==
    \A c \in Browsers :
        browser[c] = "open" ~> c \in served \/ (web = "read" /\ ~Finished(wconn))
=============================================================================
