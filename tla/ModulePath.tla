----------------------------- MODULE ModulePath -----------------------------
(***************************************************************************)
(* From a WebSocket request path to the module it names.  A path is a      *)
(* sequence of tokens: the two characters that matter, the word database   *)
(* and other text.                                                         *)
(***************************************************************************)
EXTENDS Integers, Sequences, FiniteSetsExt

CONSTANT NoModule    \* extract_module_name returns None

Token == {"/", "?", "database", "text"}

(* Where the first t of p is, or the place behind p's end.                 *)
Find(p, t) == Min({i \in DOMAIN p : p[i] = t} \cup {Len(p) + 1})

Has(p, t) == t \in Range(p)
Before(p, t) == SubSeq(p, 1, Find(p, t) - 1)
After(p, t) == SubSeq(p, Find(p, t) + 1, Len(p))

Other(p) == {i \in DOMAIN p : p[i] # "/"}
trim_start(p) == SubSeq(p, Min(Other(p) \cup {Len(p) + 1}), Len(p))
trim_end(p) == SubSeq(p, 1, Max(Other(p) \cup {0}))

(* Faulty variant: the query is cut off before the path is split.          *)
extract_module_nameQueryFirst(path) ==
  LET trimmed == trim_start(Before(path, "?"))
      rest == After(trimmed, "/")
      name == trim_end(After(rest, "/"))
  IN  IF Has(trimmed, "/") /\ Before(trimmed, "/") = <<"database">> /\ name # <<>>
      THEN name ELSE NoModule

(* splitn(3, '/') of the trimmed path; no third part means None.           *)
extract_module_name(path) ==
  LET trimmed == trim_start(path)
      rest == After(trimmed, "/")
      name == trim_end(Before(After(rest, "/"), "?"))
  IN  IF /\ Has(trimmed, "/") /\ Has(rest, "/")
         /\ Before(trimmed, "/") = <<"database">>
         /\ name # <<>>
      THEN name ELSE NoModule

(* name is what stands between the second single slash and the query:      *)
(* slashes, database, slash, a part without slashes, slash, the name,      *)
(* slashes, and then nothing or a query.                                   *)
Names(path, name) ==
  \E a \in 0..(Len(path) - 2) :
    /\ \A i \in 1..a : path[i] = "/"
    /\ path[a + 1] = "database" /\ path[a + 2] = "/"
    /\ \E b \in (a + 2)..(Len(path) - 1) :
         /\ ~ Has(SubSeq(path, a + 3, b), "/")
         /\ path[b + 1] = "/"
         /\ \E c \in (b + 2)..Len(path), d \in (b + 2)..Len(path) :
              /\ c <= d
              /\ name = SubSeq(path, b + 2, c)
              /\ ~ Has(name, "?") /\ path[c] # "/"
              /\ \A i \in (c + 1)..d : path[i] = "/"
              /\ d = Len(path) \/ path[d + 1] = "?"
=============================================================================
