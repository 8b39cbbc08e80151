----------------------------- MODULE WebRequest -----------------------------
(***************************************************************************)
(* One request of a browser: processHttpRequest and the lines of           *)
(* ReadyToRead around it.  The browser sends the request line, headers and *)
(* a body in pieces of any size and may leave at any time; the worker      *)
(* reads lines, then the body in whatever batches are there, and runs a    *)
(* page or sends a file.                                                   *)
(*                                                                         *)
(* Its path is resolved by ResolvePath; what is there is free.  Left out:  *)
(* the login and its tokens, and what a page does (Registration, Shares).  *)
(***************************************************************************)
EXTENDS ResolvePath

CONSTANTS Asked,        \* requests: path, header lines, stated length and length of the body
          MaxBody,      \* bound on the stated length
          U32           \* 2^32 in the code

Lines == {"stated", "badLength", "header"}

ASSUME WebRequestAssumption ==
  /\ MaxBody \in Nat /\ U32 \in Nat /\ U32 > MaxBody + 1
  /\ \A a \in Asked : /\ a.path \in Seq(Parts) /\ a.path # <<>>
                       /\ a.headers \in Seq(Lines)
                       /\ a.stated \in 0..MaxBody /\ a.body \in 0..MaxBody + 1

VARIABLES
  asked,       \* the whole request
  toSend,      \* what the browser has still to send
  here,        \* it has not left
  input,       \* what has come and was not read
  target,      \* what the resolved path names
  pc,
  Request,     \* what was read, as the page gets it
  length,      \* the header Content-Length, or -1
  reqLength,
  answers      \* the status lines written

vars == <<asked, toSend, here, input, target, pc, Request, length, reqLength, answers, resolving>>
read == <<input, Request, length, reqLength>>

Targets == {"free", "missing", "directory", "noIndex", "unreadable", "php", "file"}

(* The pieces of a request, in the order they are sent. *)
Pieces(a) == <<"line">> \o a.headers \o <<"blank">> \o [n \in 1..a.body |-> "body"]

Init ==
  /\ asked \in Asked
  /\ toSend = Pieces(asked) /\ here = TRUE /\ input = <<>>
  /\ target = "free" /\ pathParts = <<>> /\ i = 0
  /\ pc = "line" /\ Request = <<>> /\ length = -1 /\ reqLength = 0
  /\ answers = <<>>

-----------------------------------------------------------------------------
(* The browser                                                             *)

Send ==
  /\ here /\ toSend # <<>>
  /\ input' = Append(input, Head(toSend)) /\ toSend' = Tail(toSend)
  /\ UNCHANGED <<asked, here, target, pc, Request, length, reqLength, answers, resolving>>

Leave ==
  /\ here /\ pc # "closed"
  /\ here' = FALSE
  /\ UNCHANGED <<asked, toSend, target, pc, read, answers, resolving>>

-----------------------------------------------------------------------------
(* processHttpRequest                                                      *)

Browser == UNCHANGED <<asked, toSend, here>>
Looked  == Browser /\ UNCHANGED <<target, resolving>>

(* Writes a status line and returns. *)
Answer(code) == answers' = Append(answers, code) /\ pc' = "written"

(* canReadLine is asked until a line is there, also of a browser that left *)
ReadLine ==
  /\ pc = "line" /\ input # <<>>
  /\ Request' = <<Head(input)>> /\ input' = Tail(input) /\ pc' = "resolve"
  /\ Split(asked.path)
  /\ UNCHANGED <<length, reqLength, answers, target>> /\ Browser

(* resolveRelative, turn by turn *)
Resolve ==
  /\ pc = "resolve"
  /\ \/ (Name \/ Dot \/ DotDot) /\ UNCHANGED pc
     \/ Join /\ pc' = "lookup"
  /\ UNCHANGED <<read, answers, target>> /\ Browser

(* A directory stands for its index.php. *)
Lookup ==
  /\ pc = "lookup"
  /\ target' \in Targets \ {"free"}
  /\ \/ target' \in {"missing", "noIndex"} /\ Answer(404)
     \/ target' = "unreadable" /\ Answer(403)
     \/ target' \in {"directory", "php", "file"} /\ pc' = "headers" /\ UNCHANGED answers
  /\ UNCHANGED <<read, resolving>> /\ Browser

(* The socket is looked at before each header; whether a lost connection   *)
(* shows as closed is up to the library.                                   *)
MoreHeaders ==
  /\ pc = "headers"
  /\ pc' \in {"header"} \cup (IF here THEN {} ELSE {"written"})
  /\ UNCHANGED <<read, answers>> /\ Looked

(* Mutant: the body is not read. *)
MutBodyFollows == FALSE

(* toUInt accepted the value of the last header of that name. *)
BodyFollows == length >= 0

ReadHeader ==
  /\ pc = "header" /\ input # <<>>
  /\ Request' = Append(Request, Head(input)) /\ input' = Tail(input)
  /\ IF Head(input) = "blank"
       THEN /\ pc' = IF BodyFollows THEN "body" ELSE "run"
            /\ reqLength' = IF BodyFollows THEN length ELSE 0
            /\ UNCHANGED length
       ELSE /\ pc' = "headers"
            /\ length' = CASE Head(input) = "stated" -> asked.stated
                           [] Head(input) = "badLength" -> -1
                           [] OTHER -> length
            /\ UNCHANGED reqLength
  /\ UNCHANGED answers /\ Looked

(* Mutants: the length goes down by one for each batch; it is signed. *)
MutLeft(n)       == reqLength - 1
(* uint: less than nothing is a lot. *)
Left(n) == (reqLength - n) % U32

(* readAll: all that has come. *)
ReadBody ==
  /\ pc = "body" /\ reqLength > 0 /\ input # <<>>
  /\ Request' = Request \o input /\ reqLength' = Left(Len(input)) /\ input' = <<>>
  /\ UNCHANGED <<pc, length, answers>> /\ Looked

BodyRead ==
  /\ pc = "body" /\ reqLength = 0 /\ pc' = "run"
  /\ UNCHANGED <<read, answers>> /\ Looked

IsPage == target \in {"php", "directory"}

SendFile ==
  /\ pc = "run" /\ ~IsPage /\ Answer(200)
  /\ UNCHANGED read /\ Looked

(* ph7_init, then ph7_compile_file, then the configuration of the machine  *)
(* and its functions: each may fail.                                       *)
MakeEngine ==
  /\ pc = "run" /\ IsPage
  /\ \/ Answer(500)
     \/ pc' = "compile" /\ UNCHANGED answers
  /\ UNCHANGED read /\ Looked
Prepare ==
  /\ pc = "compile"
  /\ \/ Answer(500)
     \/ pc' = "exec" /\ UNCHANGED answers
  /\ UNCHANGED read /\ Looked

(* The page sets the code: 200, or 303 to another page; 500 if it fails. *)
Exec ==
  /\ pc = "exec"
  /\ \E code \in {200, 303, 500} : Answer(code)
  /\ UNCHANGED read /\ Looked

(* ReadyToRead: what was written is flushed, then the socket is closed. *)
CloseSocket ==
  /\ pc = "written" /\ pc' = "closed"
  /\ UNCHANGED <<read, answers>> /\ Looked

Worker ==
  \/ ReadLine \/ Resolve \/ Lookup \/ MoreHeaders \/ ReadHeader \/ ReadBody \/ BodyRead
  \/ SendFile \/ MakeEngine \/ Prepare \/ Exec \/ CloseSocket
Next == Send \/ Leave \/ Worker

(* A browser that stays sends its request to the end. *)
Spec == Init /\ [][Next]_vars /\ WF_vars(Send) /\ WF_vars(Worker)

-----------------------------------------------------------------------------
(* Properties                                                              *)

TypeOK ==
  /\ here \in BOOLEAN /\ target \in Targets
  /\ pc \in {"line", "resolve", "lookup", "headers", "header", "body", "run", "compile", "exec",
             "written", "closed"}
  /\ length \in -1..MaxBody /\ reqLength \in 0..U32 - 1
  /\ \A n \in DOMAIN answers : answers[n] \in {200, 303, 403, 404, 500}
  /\ \A s \in {toSend, input, Request} : ToSet(s) \subseteq Lines \cup {"line", "blank", "body"}

(* For every path: the loop skips no part when it sets its index back, so  *)
(* the result is that of the walk, without the white space at its end.     *)
ResolvesAsWalk == pc = "lookup" => pathParts = Trimmed(Walked(asked.path))

(* What is appended to WebPanelPath has neither ".." nor "." nor empty     *)
(* parts.  Not so: the loop takes a last part of "..", a line end and no   *)
(* version after it for a name, and trimmed() makes it "..".               *)
OnlyNames == pc = "lookup" => ToSet(pathParts) \subseteq Names

(* A page runs on whole requests: it gets the request line, the headers,   *)
(* the line that ends them and, where a length was stated, that much of    *)
(* the body, in whatever batches it came.                                  *)
PagesGetWholeRequests ==
  pc \in {"compile", "exec"} =>
     /\ IsPrefix(Request, Pieces(asked))
     /\ Len(Request) = Len(asked.headers) + 2 + (IF length >= 0 THEN asked.stated ELSE 0)

(* No more follows than was stated, nor less. *)
Exact ==
  LET at == {n \in DOMAIN asked.headers : asked.headers[n] # "header"}
  IN  at # {} => asked.body = asked.stated /\ \A n \in at : asked.headers[n] = "stated"

(* A request whose body is as long as its Content-Length, or that has no   *)
(* such header, gets exactly one answer if the browser stays: every early  *)
(* return has written its status line, the loop over the path ends, though *)
(* its index goes back, and so do those over lines and batches.  (A        *)
(* browser that leaves, or sends more, may keep its worker for ever.)      *)
RequestsAnswered == Exact ~> ((pc = "closed" /\ Len(answers) = 1) \/ ~here)
=============================================================================
