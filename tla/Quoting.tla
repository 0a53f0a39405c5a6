-------------------------------- MODULE Quoting --------------------------------
(***************************************************************************)
(* Where a password goes into another language: the connection strings of  *)
(* the detail page (internal/connstr), the SQL statements that set it      *)
(* (internal/pg, internal/tenant), and the Secret it is read back from     *)
(* when a Provision finds a SOPS file.  Each way of writing it is checked  *)
(* against the way the programs it is meant for read it again.  The .env   *)
(* block is left out: it is meant for environment blocks of Compose and    *)
(* Kubernetes, each of which reads the shell's quotes of renderEnv in its  *)
(* own way, and not as a shell does.                                       *)
(*                                                                         *)
(* A string is a sequence of characters, of which only those some language *)
(* treats specially are told apart; "x" is any other.  Identifiers, which  *)
(* no language escapes, and constant parts are left out.                   *)
(***************************************************************************)
EXTENDS Naturals, Sequences, FiniteSetsExt

CONSTANT MaxPassword    \* bound: the length of a password

ASSUME MaxPasswordAssumption == MaxPassword \in Nat

Chars == {"x", " ", "\t", "'", "\"", "\\", "@", "&", "+", "%", "$"}

\* What a step per character comes to along s.
Along(step, from, s) ==
    LET at[n \in 0..Len(s)] == IF n = 0 THEN from ELSE step[at[n - 1]][s[n]]
    IN  at[Len(s)]

\* strings.Replacer: each character becomes a sequence.
Replaced(by, s) == Along([t \in Seq(Chars) |-> [c \in Chars |-> t \o by[c]]], <<>>, s)

\* s with a character of S doubled, or with another one put before it.
Doubled(S, s) == Replaced([c \in Chars |-> IF c \in S THEN <<c, c>> ELSE <<c>>], s)
Escaped(S, s) == Replaced([c \in Chars |-> IF c \in S THEN <<"\\", c>> ELSE <<c>>], s)

Within(quote, s) == <<quote>> \o s \o <<quote>>

-----------------------------------------------------------------------------
(* Writing *)

\* Mutant of libpqEscape: only the quotes are escaped.
libpqEscapeQuotes(pw) ==
    IF \A i \in DOMAIN pw : pw[i] \notin {" ", "'", "\\"} THEN pw
    ELSE Within("'", Escaped({"'"}, pw))

libpqEscape(pw) ==
    IF \A i \in DOMAIN pw : pw[i] \notin {" ", "'", "\\"} THEN pw
    ELSE Within("'", Escaped({"'", "\\"}, pw))

\* Mutant of shQuote: the quotes are escaped as libpq has them.
shQuoteEscaped(s) == Within("'", Escaped({"'"}, s))

\* A single quote closes the quotes, stands there escaped, and opens them again.
shQuote(s) ==
    Within("'", Replaced([c \in Chars |->
                              IF c = "'" THEN <<"'", "\\", "'", "'">> ELSE <<c>>], s))

\* Percent, and the code of the character, which stands here as itself.
Percent(c) == <<"%", c>>

\* url.UserPassword: these are left alone in the user part of an address.
UserPassword(pw) ==
    Replaced([c \in Chars |-> IF c \in {"x", "&", "+", "$"} THEN <<c>> ELSE Percent(c)], pw)

\* Mutant of QueryEncode: the password is escaped as in the user part.
QueryEncodeUser(pw) == UserPassword(pw)

\* url.Values.Encode
QueryEncode(pw) ==
    Replaced([c \in Chars |-> IF c = "x" THEN <<c>>
                               ELSE IF c = " " THEN <<"+">> ELSE Percent(c)], pw)

\* Each format from the password on: it is the last word of the conninfo string, a
\* word of a command, what "@" ends, and the first of two query parameters.
renderLibpq(pw) == libpqEscape(pw)
renderPsql(pw) == shQuote(pw) \o <<" ", "x">>
renderURL(pw) == UserPassword(pw) \o <<"@", "x">>
renderJDBC(pw) == QueryEncode(pw) \o <<"&", "x">>

\* Mutant of LiteralEscape: with a backslash, as in other dialects.
LiteralEscapeBackslash(s) == Escaped({"'"}, s)

LiteralEscape(s) == Doubled({"'"}, s)

\* From the literal on: alterRolePassword sends a plain statement, ensureRole a
\* DO block, which dollars enclose.
alterRolePassword(pw) == Within("'", LiteralEscape(pw)) \o <<"x">>
ensureRole(pw) == <<"$", "$">> \o Within("'", LiteralEscape(pw)) \o <<"x", "$", "$">>

\* What SOPS writes for the value when it decrypts the file that buildSecretYAML
\* made: as it is where YAML can take it so, else in quotes of either kind.
PlainYAML(pw) ==
    /\ pw # <<>> /\ pw[1] = "x" /\ pw[Len(pw)] \notin {" ", "\t"}
DecryptedYAML(pw) ==
    {Within("'", Doubled({"'"}, pw)), Within("\"", Escaped({"\"", "\\", "\t"}, pw))}
      \cup (IF PlainYAML(pw) THEN {pw} ELSE {})

-----------------------------------------------------------------------------
(* Reading: where a reader is, and what it has read *)

States == {"start", "bare", "bareEscape", "quoted", "quotedEscape", "quote", "escape",
           "percent", "end", "over"}
Reading == [in : States, out : Seq(Chars)]

Read(st, c, to) == [in |-> to, out |-> Append(st.out, c)]
To(st, to) == [st EXCEPT !.in = to]

\* conninfo_parse of libpq
Conninfo == [st \in Reading |-> [c \in Chars |->
    LET bare == st.in = "bare" \/ (st.in = "start" /\ c # "'") IN
    CASE st.in = "start" /\ c = "'" -> To(st, "quoted")
      [] bare /\ c = "\\" -> To(st, "bareEscape")
      [] bare /\ c \in {" ", "\t"} -> To(st, "over")
      [] bare /\ c \notin {"\\", " ", "\t"} -> Read(st, c, "bare")
      [] st.in = "bareEscape" -> Read(st, c, "bare")
      [] st.in = "quoted" /\ c = "\\" -> To(st, "quotedEscape")
      [] st.in = "quoted" /\ c = "'" -> To(st, "end")
      [] st.in = "quoted" /\ c \notin {"\\", "'"} -> Read(st, c, "quoted")
      [] st.in = "quotedEscape" -> Read(st, c, "quoted")
      [] OTHER -> To(st, "over")]]

\* A word of a POSIX shell, as far as single quotes go
Shell == [st \in Reading |-> [c \in Chars |->
    CASE st.in \in {"start", "bare"} /\ c = "'" -> To(st, "quoted")
      [] st.in \in {"start", "bare"} /\ c = "\\" -> To(st, "escape")
      [] st.in \in {"start", "bare"} /\ c = "x" -> Read(st, c, "bare")
      [] st.in \in {"start", "bare"} /\ c \notin {"'", "\\", "x"} -> To(st, "over")
      [] st.in = "escape" -> Read(st, c, "bare")
      [] st.in = "quoted" /\ c = "'" -> To(st, "bare")
      [] st.in = "quoted" /\ c # "'" -> Read(st, c, "quoted")
      [] OTHER -> st]]

\* The password of an address, up to the end mark; only in a query is "+" a space.
Address(mark, plus) == [st \in Reading |-> [c \in Chars |->
    CASE st.in = "percent" -> Read(st, c, "bare")
      [] st.in \in {"start", "bare"} /\ c = "%" -> To(st, "percent")
      [] st.in \in {"start", "bare"} /\ c = mark -> To(st, "over")
      [] st.in \in {"start", "bare"} /\ c \notin {"%", mark} ->
            Read(st, IF c = "+" THEN plus ELSE c, "bare")
      [] OTHER -> st]]

\* A string literal of Postgres
Literal == [st \in Reading |-> [c \in Chars |->
    CASE st.in = "start" -> To(st, "quoted")
      [] st.in = "quoted" /\ c = "'" -> To(st, "quote")
      [] st.in = "quoted" /\ c # "'" -> Read(st, c, "quoted")
      [] st.in = "quote" /\ c = "'" -> Read(st, c, "quoted")
      [] st.in = "quote" /\ c # "'" -> To(st, "over")
      [] OTHER -> st]]

Parse(reader, s) == Along(reader, [in |-> "start", out |-> <<>>], s)

\* What stands between two dollars and the next two.
DollarQuoted(s) ==
    LET pairs == {i \in 3..(Len(s) - 1) : s[i] = "$" /\ s[i + 1] = "$"}
    IN  SubSeq(s, 3, Min(pairs) - 1)

\* strings.Trim
Trim(S, s) ==
    LET kept == {i \in DOMAIN s : s[i] \notin S}
    IN  IF kept = {} THEN <<>> ELSE SubSeq(s, Min(kept), Max(kept))

\* Mutants of parseSecretPassword: blanks and quotes are trimmed in one go; an empty
\* value is taken for the password.
parseSecretPasswordAll(value) == {Trim({"\"", "'", " ", "\t"}, value)} \ {<<>>}
parseSecretPasswordEmpty(value) == {Trim({"\"", "'"}, Trim({" ", "\t"}, value))}

\* What it finds: blanks around the value are dropped, then quotes around that.  An
\* empty value is passed over, and "password field not found" is the error.
parseSecretPassword(value) ==
    {Trim({"\"", "'"}, Trim({" ", "\t"}, value))} \ {<<>>}

-----------------------------------------------------------------------------

VARIABLE password

PasswordInit == password \in UNION {[1..n -> Chars] : n \in 0..MaxPassword}

PasswordSpec == PasswordInit /\ [][UNCHANGED password]_password

Has(c) == \E i \in DOMAIN password : password[i] = c

\* libpq reads the password from the conninfo string, to its end.  One with a tab
\* is excepted: libpqEscape looks for spaces only.
ConninfoReads ==
    LET end == Parse(Conninfo, renderLibpq(password)) IN
    Has("\t") \/ (end.out = password /\ end.in \in {"start", "bare", "end"})

\* The shell reads the password as one word of the psql one-liner, whatever quotes,
\* blanks or operators it contains.
ShellReads ==
    LET end == Parse(Shell, renderPsql(password))
    IN  end.out = password /\ end.in = "over"

\* A client finds the password in the three kinds of address, and what follows it
\* is still the host, or the next parameter.
AddressesRead ==
    LET end == Parse(Address("@", "+"), renderURL(password))
        endJDBC == Parse(Address("&", " "), renderJDBC(password))
    IN  /\ end.out = password /\ end.in = "over"
        /\ endJDBC.out = password /\ endJDBC.in = "over"

\* What the detail page shows is read as the password, in each format but the .env
\* block.
StringsRead == ConninfoReads /\ ShellReads /\ AddressesRead

\* A Provision that finds a SOPS file gives the role the password an earlier one put
\* there, in whichever of YAML's styles SOPS gives it back, and refuses an empty one;
\* Rotate sets the one it has put in the Secret.  Passwords with quotes, backslashes
\* or tabs in a file are excepted, which the portal makes none of and the parser does
\* not unescape, and so are two dollars in a row, which end the DO block of ensureRole.
FileReachesRole ==
    LET special == Has("'") \/ Has("\"") \/ Has("\\") \/ Has("\t")
        twoDollars == \E i \in 1..(Len(password) - 1) :
                         password[i] = "$" /\ password[i + 1] = "$"
    IN  /\ Parse(Literal, alterRolePassword(password)) = [in |-> "over", out |-> password]
        /\ special \/ twoDollars \/
             \A value \in DecryptedYAML(password) :
                 {Parse(Literal, DollarQuoted(ensureRole(pw))) : pw \in parseSecretPassword(value)}
                     = IF password = <<>> THEN {} ELSE {[in |-> "over", out |-> password]}
================================================================================
