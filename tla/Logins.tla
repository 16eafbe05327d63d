------------------------------- MODULE Logins -------------------------------
(***************************************************************************)
(* A client fills in the form of /login, in the query, in the body or in   *)
(* both, and sends it; the server reads the head of the request, finds the *)
(* two variables, finds the user and compares the digests of the passwords *)
(* (webservice/app/login.c, src/users.c).  How the bytes arrive is in      *)
(* Requests, what a session is in QgServer.                                *)
(***************************************************************************)
EXTENDS Http, Md5

CONSTANTS Places,       \* where a form may be: "query", "body"
          Names,        \* names of variables, as the client writes them
          Texts,        \* values, each a sequence of characters
          Spellings,    \* how a character may be written
          Users,        \* users of the database: code and password
          SecretKey,    \* secret_key
          Heads,        \* how clients write the head
          Digits,       \* a number in decimal digits
          PostLen,      \* POST_BUFFER_LEN
          MaxFields

ContentLength == <<"Content", "-", "Length">>
ContentLenght == <<"Content", "-", "Lenght">>       \* as read_post_data spells it

\* How a form may spell a character: as itself, a space as "+", any by its number.
SpellingsOf(c) ==
  {<<x>> : x \in {c} \ {"+", "%", "&", " ", "nul"}}
  \cup {<<x>> : x \in IF c = " " THEN {"+"} ELSE {}}
  \cup {<<"%", d[1], d[2]>> : d \in {x \in HexDigits \X HexDigits :
                                       Char(16 * HexValue(x[1]) + HexValue(x[2])) = c}}

Eol == {"\r", "\n"}
IsHeaderName(n) == n \in Seq(Symbols \ (Eol \cup {":", "nul"})) /\ n # <<>>
IsHeader(l)     == IsHeaderName(l.name) /\ l.value \in Seq(Symbols \ (Eol \cup {"nul"}))

\* A line that is not the length, nor what the server takes for a bound of the body.
IsOther(l) == IsHeader(l) /\ ~ SameWord(l.name, ContentLenght)

ASSUME LoginConstants ==
  /\ ValidMethods \cup {"/login", "1.1", "user", "pass"} \subseteq Symbols
  /\ Places = {"query", "body"}
  /\ \A n \in Names : n \in Seq(Symbols \ {" ", "&", "=", "nul"}) /\ n # <<>>
  /\ Texts \subseteq Seq(DOMAIN Spellings)
  /\ \A c \in DOMAIN Spellings : c \in Symbols /\ Spellings[c] \subseteq SpellingsOf(c)
  /\ \A u \in Users : /\ u = [code |-> u.code, password |-> u.password]
                      /\ u.code \in Seq(Symbols) /\ u.password \in Seq(Symbols)
  /\ SecretKey \in Seq(0..255)
  /\ None \notin [user : Seq(Symbols) \cup {None}, pass : Seq(Symbols) \cup {None}]
  /\ PostLen \in Nat /\ Digits \in [0..PostLen -> Symbols \ (Eol \cup {" ", "nul"})]
  /\ \A m, n \in 0..PostLen : Digits[m] = Digits[n] => m = n
  /\ ~ SameWord(ContentLength, ContentLenght)
  /\ \A h \in Heads :
       /\ h.method \in ValidMethods /\ h.blank \in Seq({" "} \cup Eol)
       /\ IsHeaderName(h.length) /\ SameWord(h.length, ContentLength) /\ h.space \in Seq({" "})
       /\ h.before \in Seq(Range(h.before)) /\ h.after \in Seq(Range(h.after))
       /\ \A l \in Range(h.before) : IsOther(l) /\ ~ SameWord(l.name, ContentLength)
       /\ Len(h.before) < MaxHeaders
       /\ \A l \in Range(h.after) : IsOther(l)
       /\ h.eol \in Seq(Eol) /\ h.eol # <<>>

VARIABLES fields,       \* what the client wrote, in order: place, name, value
          form,         \* the texts of the two places
          wire,         \* what it sent: head and body
          ri,           \* mg_request_info, None before the head is parsed
          got,          \* the variables the handler got
          answer        \* status of the answer

vars == <<fields, form, wire, ri, got, answer>>

Init ==
  /\ fields = <<>> /\ form = [p \in Places |-> <<>>]
  /\ wire = None /\ ri = None /\ got = None /\ answer = None

Spelled(value, how) == FlattenSeq([i \in DOMAIN value |-> how[i]])

\* The client adds a variable that is not in that place yet.
Write ==
  /\ wire = None /\ Len(fields) < MaxFields
  /\ \E p \in Places, n \in Names, v \in Texts :
       /\ \A i \in DOMAIN fields : ~ (fields[i].place = p /\ SameWord(fields[i].name, n))
       /\ fields' = Append(fields, [place |-> p, name |-> n, value |-> v])
       /\ \E how \in {h \in [DOMAIN v -> UNION {Spellings[c] : c \in ToSet(v)}] :
                        \A i \in DOMAIN v : h[i] \in Spellings[v[i]]} :
            form' = [form EXCEPT ![p] = @ \o (IF @ = <<>> THEN <<>> ELSE <<"&">>)
                                          \o n \o <<"=">> \o Spelled(v, how)]
  /\ UNCHANGED <<wire, ri, got, answer>>

\* A head: its method, and lines before and after Content-Length and how they end; the
\* last byte is overwritten with the end of the string. A query without variables may
\* be written or left out.
Lines(h, length) ==
  h.before \o <<[name |-> h.length, value |-> h.space \o <<Digits[length]>>]>> \o h.after

HeadText(h, mark, length) ==
  LET uri == <<"/login">> \o (IF mark THEN <<"?">> \o form["query"] ELSE <<>>)
      l   == Lines(h, length)
  IN Front(h.blank \o <<h.method, " ">> \o uri \o <<" ", "HTTP/", "1.1">> \o h.eol
           \o FlattenSeq([i \in DOMAIN l |-> l[i].name \o <<":">> \o l[i].value \o h.eol]))

Send ==
  /\ wire = None /\ Len(form["body"]) <= PostLen
  /\ \E h \in Heads, mark \in {form["query"] # <<>>, TRUE} :
       wire' = [head |-> HeadText(h, mark, Len(form["body"])), body |-> form["body"],
                method |-> h.method]
  /\ UNCHANGED <<fields, form, ri, got, answer>>

Number(s) == CHOOSE n \in 0..PostLen : <<Digits[n]>> = s

\* The server goes on with the request; it answers 400 or 505 to any other.
Understood(r) == r.ok /\ r.version \in {<<"1.0">>, <<"1.1">>}

\* process_new_connection and handle_request up to the handler.
HandleRequest ==
  /\ wire # None /\ ri = None
  /\ LET r    == ParseRequest(wire.head)
         q    == Span(r.uri, ToSet(r.uri) \ {"?"})
         cl   == GetHeader(r.headers, ContentLength)
         size == IF cl = None THEN 0 ELSE Number(cl)
         clen == GetHeader(r.headers, ContentLenght)
         most == IF clen = None THEN PostLen ELSE Number(clen)
     IN ri' = [ok |-> Understood(r), method |-> r.method,
               uri |-> UrlDecode[[src |-> SubSeq(r.uri, 1, q), room |-> q, form |-> FALSE]],
               query |-> IF q = Len(r.uri) THEN None ELSE From(r.uri, q + 2),
               post |-> SubSeq(wire.body, 1, IF size < most THEN size ELSE most)]
  /\ UNCHANGED <<fields, form, wire, got, answer>>

\* password_md5
PasswordMd5(password) == Md5Finish(Md5Append(Md5Append(Md5Init, SecretKey), password))

\* user_find_by_code, user_check_password
UserChecks(user, pass) ==
  \E u \in Users : u.code = user /\ PasswordMd5(u.password) = PasswordMd5(pass)

\* login; 400 stands for render_400, whose answer says 404.
Login ==
  /\ ri # None /\ answer = None
  /\ LET var(n) == CString(GetVar(ri.query, ri.post, <<n>>))
     IN IF ~ ri.ok \/ ri.uri # <<"/login">> \/ ri.method # <<"POST">>
        THEN answer' = 400 /\ got' = None
        ELSE /\ got' = [user |-> var("user"), pass |-> var("pass")]
             /\ answer' = IF got'.user # None /\ got'.pass # None
                             /\ UserChecks(got'.user, got'.pass)
                          THEN 200 ELSE 400
  /\ UNCHANGED <<fields, form, wire, ri>>

Again ==
  /\ answer # None
  /\ fields' = <<>> /\ form' = [p \in Places |-> <<>>]
  /\ wire' = None /\ ri' = None /\ got' = None /\ answer' = None

Next == Write \/ Send \/ HandleRequest \/ Login \/ Again

Spec == Init /\ [][Next]_vars

(***************************************************************************)
(* What the client means: a variable of the query, unless it is empty or   *)
(* not there, else that of the body; and of its value what is before the   *)
(* first NUL.                                                              *)
(***************************************************************************)
Filled(place, name) ==
  {i \in DOMAIN fields : /\ fields[i].place = place /\ fields[i].value # <<>>
                         /\ SameWord(fields[i].name, <<name>>)}

Filling(name) ==
  IF Filled("query", name) # {} THEN fields[Min(Filled("query", name))].value
  ELSE IF Filled("body", name) # {} THEN fields[Min(Filled("body", name))].value ELSE None

Meant(name) == CString(Filling(name))

\* However the client spells the form and the head, and whatever other variables there
\* are, the handler of a POST gets the user and the password the client means. The
\* length is among the first MaxHeaders headers, and no header is called 'Content-Lenght'.
VarsReadBack ==
  /\ ri # None => ri.ok /\ ri.uri = <<"/login">> /\ ri.method = <<wire.method>> /\ ri.post = wire.body
  /\ answer # None /\ wire.method = "POST" =>
       got # None /\ got.user = Meant("user") /\ got.pass = Meant("pass")

\* A login is accepted if and only if it is a POST of a user of the database and of the
\* password of that user; and what is compared is the MD5 of secret_key and password.
LoginIsRight ==
  answer # None =>
    /\ (answer = 200) <=> /\ wire.method = "POST"
                          /\ [code |-> Meant("user"), password |-> Meant("pass")] \in Users
    /\ \A n \in {"user", "pass"} :
         Meant(n) # None => PasswordMd5(Meant(n)) = Reference(SecretKey \o Meant(n))

\* get_var writes no byte past the block it allocated, but for one: when the query has no
\* characters and the body none, the block has no bytes and mg_get_var writes the first.
FitsBlock ==
  ri # None =>
    \A n \in {"user", "pass"} :
      LET size == RetSize(ri.query, ri.post)
          wrote(text) == LET v == MgGetVar(text, <<n>>, size) IN IF v = None THEN 1 ELSE Len(v) + 1
      IN IF ri.query = <<>> /\ ri.post = <<>> THEN wrote(ri.query) = size + 1
         ELSE /\ ri.query # None => wrote(ri.query) <= size
              /\ ri.post # <<>>  => wrote(ri.post) <= size
=============================================================================
