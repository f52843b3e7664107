----------------------------- MODULE App_proofs -----------------------------
(***************************************************************************)
(* The program, whichever command it is started with.                      *)
(*                                                                         *)
(* The key files of any number of generate commands that run at once on    *)
(* any paths.  The invariant that carries the argument: a file a command   *)
(* has opened is there, so that nobody creates it again with another mode  *)
(* and nobody who does not override opens it; and of two commands that are *)
(* apart, neither has opened a file of the other's.                        *)
(*                                                                         *)
(* The run command with any number of connections and peers.  A set-up has *)
(* spawned, and never forgets, every task of the peers it is past and of   *)
(* the one it is at up to its step; the channel of the monitor holds the   *)
(* first report.                                                           *)
(***************************************************************************)
EXTENDS App, TLAPS

Steps == {"open private", "restrict", "open public", "write private", "write public",
          "done", "failed"}

Content == Seq({"secret", "public", "part", "old"} \cup Command)

File == [kind : {"absent", "file", "link"}, content : Content, wide : BOOLEAN]

\* A content with the command's secret in it.
Holds(c, g) == Len(c) > 1 /\ c[1] = "secret" /\ c[2] = g

\* The types the argument needs.
Typed ==
  /\ flags \in [Command -> GenFlags]
  /\ files \in [Path -> File]
  /\ pc \in [Command -> Steps]
  /\ \A p \in Path : files[p].kind = "absent" => files[p].content = <<>>

\* What a command has opened by now, as far as it has not failed.
OpenPaths(g) ==
  {p \in Path :
     \/ p = flags[g].path /\ pc[g] \in Steps \ {"open private", "failed"}
     \/ p = PublicPath(g) /\ pc[g] \in {"write private", "write public", "done"}}

\* Opened files are there, an old one only if it was to be overridden, and a
\* private key file is restricted once that is done.
OpenInv ==
  \A g \in Command :
    /\ pc[g] = "restrict" => flags[g].path # None
    /\ \A p \in OpenPaths(g) :
         /\ files[p].kind = "file"
         /\ ~flags[g].override_files => files[p].content # Old
    /\ /\ pc[g] \in {"open public", "write private", "write public", "done"}
       /\ flags[g].path # None /\ ~flags[g].insecure_priv
       => ~files[flags[g].path].wide

\* Commands that are apart have no file in common.
ApartInv ==
  \A g \in Command, h \in Command : g # h /\ Apart(g, h) => OpenPaths(g) \cap OpenPaths(h) = {}

\* The contents a command that is apart from all others has got to.
PairInv ==
  \A g \in Command :
    /\ \A h \in Command \ {g} : Apart(g, h)
    /\ flags[g].path = None \/ flags[g].path # PublicPath(g)
    => /\ pc[g] \in {"write public", "done"} /\ flags[g].path # None
            => files[flags[g].path].content = <<"secret", g>>
       /\ pc[g] = "done" /\ PublicPath(g) # None
            => files[PublicPath(g)].content = <<"public", g>>

\* The inductive invariant.
Inv == Typed /\ OpenInv /\ ApartInv /\ PairInv /\ SecretNotExposed

\* Where a command's paths are.
LEMMA Paths ==
  ASSUME Typed, NEW g \in Command
  PROVE  /\ flags[g].path \in Path \cup {None}
         /\ PublicPath(g) \in Path \cup {None}
         /\ flags[g].insecure_priv \in BOOLEAN /\ flags[g].override_files \in BOOLEAN
<1>1. flags[g] \in GenFlags
  BY DEF Typed
<1>2. /\ flags[g].path \in DOMAIN PubOf \cup {None} /\ flags[g].pub_path \in Path \cup {None}
      /\ flags[g].insecure_priv \in BOOLEAN /\ flags[g].override_files \in BOOLEAN
  BY <1>1 DEF GenFlags
<1> QED
  BY <1>2, KeygenAssumption DEF PublicPath

\* Whose secret is in what is written.
LEMMA Contents ==
  ASSUME NEW g \in Command, NEW h \in Command
  PROVE  /\ <<>> \in Content /\ Old \in Content /\ Old # <<>>
         /\ <<"secret", g>> \in Content /\ <<"secret", g, "part">> \in Content
         /\ <<"public", g>> \in Content /\ <<"public", g, "part">> \in Content
         /\ <<"secret", g>> # Old /\ <<"secret", g, "part">> # Old
         /\ <<"public", g>> # Old /\ <<"public", g, "part">> # Old
         /\ ~Holds(<<>>, h) /\ ~Holds(Old, h)
         /\ ~Holds(<<"public", g>>, h) /\ ~Holds(<<"public", g, "part">>, h)
         /\ Holds(<<"secret", g>>, h) => g = h
         /\ Holds(<<"secret", g, "part">>, h) => g = h
<1>1. Old \in Content /\ Len(Old) = 1 /\ <<>> \in Content /\ Len(<<>>) = 0
  BY DEF Content, Old
<1>2. /\ <<"secret", g>> \in Content /\ <<"secret", g, "part">> \in Content
      /\ <<"public", g>> \in Content /\ <<"public", g, "part">> \in Content
  BY DEF Content
<1>3. /\ Len(<<"secret", g>>) = 2 /\ Len(<<"secret", g, "part">>) = 3
      /\ Len(<<"public", g>>) = 2 /\ Len(<<"public", g, "part">>) = 3
  OBVIOUS
<1>4. ~Holds(<<>>, h) /\ ~Holds(Old, h)
  BY <1>1 DEF Holds
<1>5. /\ ~Holds(<<"public", g>>, h) /\ ~Holds(<<"public", g, "part">>, h)
      /\ Holds(<<"secret", g>>, h) => g = h
      /\ Holds(<<"secret", g, "part">>, h) => g = h
  BY DEF Holds
<1>6. Old # <<>>
  BY <1>1
<1>7. <<"secret", g>> # Old /\ <<"public", g>> # Old
  BY <1>1, <1>3
<1>8. <<"secret", g, "part">> # Old /\ <<"public", g, "part">> # Old
  BY <1>1, <1>3
<1> QED
  BY <1>1, <1>2, <1>4, <1>5, <1>6, <1>7, <1>8, Zenon

\* The commands start in Inv.
LEMMA InitInv == Init => Inv
<1> SUFFICES ASSUME Init PROVE Inv
  OBVIOUS
<1>1. Old \in Content /\ <<>> \in Content
  BY DEF Content, Old
<1>2. \A p \in Path :
        /\ files[p] \in File /\ files[p].content \in {<<>>, Old}
        /\ files[p].kind = "absent" => files[p].content = <<>>
  <2> TAKE p \in Path
  <2>1. \/ files[p] = [kind |-> "absent", content |-> <<>>, wide |-> FALSE]
        \/ files[p] = [kind |-> "file", content |-> Old, wide |-> TRUE]
        \/ files[p] = [kind |-> "link", content |-> Old, wide |-> TRUE]
    BY Zenon DEF Init
  <2>2. \A k \in {"absent", "file", "link"}, c \in Content, w \in BOOLEAN :
          [kind |-> k, content |-> c, wide |-> w] \in File
    BY DEF File
  <2>3. files[p] \in File
    BY <1>1, <2>1, <2>2, ZenonT(60)
  <2>4. \A e : e = <<>> =>
          /\ files[p].content \in {e, Old}
          /\ files[p].kind = "absent" => files[p].content = e
    BY <2>1
  <2> QED
    BY <2>3, <2>4
<1>3. Typed
  BY <1>2, Zenon DEF Init, Typed, Steps
<1>4. \A g \in Command : OpenPaths(g) = {}
  BY Zenon DEF Init, OpenPaths
<1>5. OpenInv /\ ApartInv /\ PairInv
  BY <1>4, Zenon DEF Init, OpenInv, ApartInv, PairInv
<1>6. SecretNotExposed
  BY <1>2, Contents, ZenonT(60) DEF SecretNotExposed, Holds
<1> QED
  BY <1>3, <1>5, <1>6 DEF Inv

Step(g) == OpenPrivate(g) \/ RestrictPrivate(g) \/ OpenPublic(g)
           \/ WritePrivate(g) \/ WritePublic(g)

\* What a step may do to a file: nothing, if the command may not touch it; empty
\* one it may open; restrict or write one it has opened.
Touches(g, p) ==
  \/ files'[p] = files[p]
  \/ /\ p \in FilesOf(g) /\ CanOpen(files[p].kind, flags[g].override_files)
     /\ files'[p].kind = "file" /\ files'[p].content = <<>>
     /\ files[p].kind # "absent" => files'[p].wide = files[p].wide
  \/ /\ p \in OpenPaths(g)
     /\ files'[p].kind = files[p].kind /\ files'[p].content = files[p].content
     /\ files'[p].wide => files[p].wide
  \/ /\ p \in OpenPaths(g)
     /\ files'[p].kind = files[p].kind /\ files'[p].wide = files[p].wide
     /\ \/ files'[p].content \in {<<"secret", g>>, <<"secret", g, "part">>}
             /\ p = flags[g].path /\ pc[g] = "write private"
        \/ files'[p].content \in {<<"public", g>>, <<"public", g, "part">>}
             /\ p = PublicPath(g) /\ pc[g] = "write public"

\* Opening a file touches no other one.
LEMMA OpenTouches ==
  ASSUME Typed, NEW g \in Command, NEW q \in Path, NEW wide \in BOOLEAN, Open(g, q, wide),
         q \in FilesOf(g)
  PROVE  /\ files' \in [Path -> File]
         /\ \A p \in Path : Touches(g, p)
         /\ files'[q].kind = "file" /\ CanOpen(files[q].kind, flags[g].override_files)
         /\ files'[q].content = <<>>
         /\ files[q].kind = "absent" => files'[q].wide = wide
<1>1. \A p \in Path : files[p] \in File
  BY DEF Typed
<1>2. \A p \in Path \ {q} : files'[p] = files[p]
  BY DEF Open, Typed
<1>3. PICK e : e = <<>>
  OBVIOUS
<1>4. e \in Content
  BY <1>3, Contents, ZenonT(60)
<1>5. /\ files[q].kind = "absent" => files'[q] = [kind |-> "file", content |-> e, wide |-> wide]
      /\ files[q].kind # "absent" => files'[q] = [files[q] EXCEPT !.content = e]
      /\ files' \in [Path -> {files'[p] : p \in Path}]
  BY <1>3 DEF Open, Typed
<1>6. CanOpen(files[q].kind, flags[g].override_files)
  BY DEF Open
<1>7. files[q].kind \in {"absent", "file"}
  BY <1>1, <1>6 DEF CanOpen, File
<1>8. files'[q] \in File /\ files'[q].kind = "file" /\ files'[q].content = e
  BY <1>1, <1>4, <1>5, <1>7 DEF File
<1>9. files[q].kind # "absent" => files'[q].wide = files[q].wide
  BY <1>1, <1>5 DEF File
<1>10. files[q].kind = "absent" => files'[q].wide = wide
  BY <1>5
<1>11. files' \in [Path -> File]
  BY <1>1, <1>2, <1>5, <1>8
<1>12. Touches(g, q)
  BY <1>3, <1>6, <1>8, <1>9 DEF Touches
<1>13. \A p \in Path : Touches(g, p)
  BY <1>2, <1>12, Zenon DEF Touches
<1> QED
  BY <1>3, <1>6, <1>8, <1>10, <1>11, <1>13

\* What a step does to the files, and what it has opened or written after it.
Effect(g) ==
  /\ files' \in [Path -> File]
  /\ \A p \in Path : Touches(g, p)
  /\ pc' = [pc EXCEPT ![g] = pc'[g]] /\ pc'[g] \in Steps
  /\ pc'[g] = "restrict" => flags[g].path # None
  /\ \A p \in OpenPaths(g)' :
       \/ p \in OpenPaths(g)
       \/ /\ CanOpen(files[p].kind, flags[g].override_files)
          /\ files'[p].kind = "file" /\ files'[p].content = <<>>
  /\ /\ pc'[g] \in {"open public", "write private", "write public", "done"}
     /\ flags[g].path # None /\ ~flags[g].insecure_priv
     => ~files'[flags[g].path].wide
  /\ pc'[g] = "write public" /\ flags[g].path # None
       => files'[flags[g].path].content = <<"secret", g>>
  /\ pc'[g] = "done"
       => /\ pc[g] = "write public"
          /\ flags[g].path # None /\ flags[g].path # PublicPath(g)
               => files'[flags[g].path] = files[flags[g].path]
          /\ PublicPath(g) # None => files'[PublicPath(g)].content = <<"public", g>>

\* Opening the private key file.
LEMMA OpenPrivateEffect ==
  ASSUME Typed, OpenInv, NEW g \in Command, OpenPrivate(g), UNCHANGED flags
  PROVE  Effect(g)
<1>1. /\ flags[g].path \in Path \cup {None} /\ PublicPath(g) \in Path \cup {None}
      /\ flags[g].insecure_priv \in BOOLEAN
  BY Paths
<1>2. PublicPath(g)' = PublicPath(g)
  BY DEF PublicPath
<1>3. CASE flags[g].path # None /\ Open(g, flags[g].path, flags[g].insecure_priv) /\ Goto(g, "restrict")
  <2>1. flags[g].path \in Path /\ flags[g].path \in FilesOf(g)
    BY <1>1, <1>3 DEF FilesOf
  <2>2. /\ files' \in [Path -> File] /\ \A p \in Path : Touches(g, p)
        /\ files'[flags[g].path].kind = "file" /\ files'[flags[g].path].content = <<>>
        /\ CanOpen(files[flags[g].path].kind, flags[g].override_files)
    BY <1>1, <1>3, <2>1, OpenTouches
  <2>3. pc' = [pc EXCEPT ![g] = pc'[g]] /\ pc'[g] = "restrict"
    BY <1>3 DEF Goto, Typed
  <2>4. \A p \in OpenPaths(g)' : p = flags[g].path
    BY <2>3, <1>2 DEF OpenPaths, Steps
  <2> QED
    BY <1>3, <2>2, <2>3, <2>4 DEF Effect, Steps
<1>4. CASE UNCHANGED files /\ (Goto(g, "failed") \/ (flags[g].path = None /\ Goto(g, "open public")))
  <2>1. /\ pc' = [pc EXCEPT ![g] = pc'[g]]
        /\ pc'[g] = "failed" \/ (pc'[g] = "open public" /\ flags[g].path = None)
    BY <1>4, Zenon DEF Goto, Typed
  <2>2. OpenPaths(g)' = {}
    BY <2>1, <1>2, KeygenAssumption, Zenon DEF OpenPaths, Steps
  <2>3. files' \in [Path -> File] /\ \A p \in Path : Touches(g, p)
    BY <1>4, Zenon DEF Typed, Touches
  <2> QED
    BY <2>1, <2>2, <2>3, Zenon DEF Effect, Steps
<1> QED
  BY <1>3, <1>4, Zenon DEF OpenPrivate, Fail

\* Restricting it.
LEMMA RestrictEffect ==
  ASSUME Typed, OpenInv, NEW g \in Command, RestrictPrivate(g), UNCHANGED flags
  PROVE  Effect(g)
<1>1. /\ flags[g].path \in Path /\ PublicPath(g) \in Path \cup {None}
      /\ flags[g].insecure_priv \in BOOLEAN
  BY Paths, Zenon DEF OpenInv, RestrictPrivate
<1>2. PublicPath(g)' = PublicPath(g)
  BY DEF PublicPath
<1>3. pc[g] = "restrict" /\ flags[g].path \in OpenPaths(g)
  BY <1>1, Zenon DEF RestrictPrivate, OpenPaths, Steps
<1>4. CASE files' = [files EXCEPT ![flags[g].path] = Restricted(g)] /\ Goto(g, "open public")
  <2> DEFINE q == flags[g].path
  <2>1. files[q] \in File
    BY <1>1 DEF Typed
  <2>2. /\ files'[q] \in File /\ files'[q].kind = files[q].kind
        /\ files'[q].content = files[q].content
        /\ files'[q].wide = IF flags[g].insecure_priv THEN files[q].wide ELSE FALSE
    BY <1>1, <1>4, <2>1, Zenon DEF Typed, Restricted, File
  <2>3. \A p \in Path \ {q} : files'[p] = files[p]
    BY <1>4, Zenon DEF Typed
  <2>4. files' \in [Path -> File]
    BY <1>4, <1>1, <2>2, <2>3, Zenon DEF Typed
  <2>5. Touches(g, q)
    BY <1>3, <2>2, ZenonT(60) DEF Touches
  <2>6. \A p \in Path : Touches(g, p)
    BY <2>3, <2>5, Zenon DEF Touches
  <2>7. pc' = [pc EXCEPT ![g] = pc'[g]] /\ pc'[g] = "open public"
    BY <1>4, Zenon DEF Goto, Typed
  <2>8. \A p \in OpenPaths(g)' : p = q
    BY <2>7, <1>2, Zenon DEF OpenPaths, Steps
  <2> QED
    BY <1>3, <2>2, <2>4, <2>6, <2>7, <2>8, ZenonT(60) DEF Effect, Steps
<1>5. CASE Fail(g)
  <2>1. pc' = [pc EXCEPT ![g] = pc'[g]] /\ pc'[g] = "failed" /\ files' = files
    BY <1>5 DEF Fail, Goto, Typed
  <2>2. OpenPaths(g)' = {}
    BY <2>1 DEF OpenPaths, Steps
  <2>3. files' \in [Path -> File] /\ \A p \in Path : Touches(g, p)
    BY <2>1 DEF Typed, Touches
  <2> QED
    BY <2>1, <2>2, <2>3 DEF Effect, Steps
<1> QED
  BY <1>4, <1>5, Zenon DEF RestrictPrivate

\* Opening the public key file.
LEMMA OpenPublicEffect ==
  ASSUME Typed, OpenInv, NEW g \in Command, OpenPublic(g), UNCHANGED flags
  PROVE  Effect(g)
<1>1. /\ flags[g].path \in Path \cup {None} /\ PublicPath(g) \in Path \cup {None}
      /\ flags[g].insecure_priv \in BOOLEAN
  BY Paths
<1>2. PublicPath(g)' = PublicPath(g)
  BY DEF PublicPath
<1>3. pc[g] = "open public" /\ (flags[g].path # None => flags[g].path \in OpenPaths(g))
  BY <1>1, Zenon DEF OpenPublic, OpenPaths, Steps
<1>4. CASE PublicPath(g) # None /\ Open(g, PublicPath(g), TRUE) /\ Goto(g, "write private")
  <2>1. PublicPath(g) \in Path /\ PublicPath(g) \in FilesOf(g)
    BY <1>1, <1>4, Zenon DEF FilesOf
  <2>2. /\ files' \in [Path -> File] /\ \A p \in Path : Touches(g, p)
        /\ files'[PublicPath(g)].kind = "file" /\ files'[PublicPath(g)].content = <<>>
        /\ CanOpen(files[PublicPath(g)].kind, flags[g].override_files)
    BY <1>4, <2>1, OpenTouches, Zenon
  <2>3. pc' = [pc EXCEPT ![g] = pc'[g]] /\ pc'[g] = "write private"
    BY <1>4, Zenon DEF Goto, Typed
  <2>4. \A p \in OpenPaths(g)' : p \in OpenPaths(g) \/ p = PublicPath(g)
    BY <1>2, <1>3, <2>3, Zenon DEF OpenPaths, Steps
  <2>5. flags[g].path # None /\ ~flags[g].insecure_priv => ~files'[flags[g].path].wide
    <3> SUFFICES ASSUME flags[g].path # None, ~flags[g].insecure_priv
                 PROVE  ~files'[flags[g].path].wide
      OBVIOUS
    <3>1. Touches(g, flags[g].path)
      BY <1>1, <2>2
    <3>2. ~files[flags[g].path].wide /\ files[flags[g].path].kind = "file"
      BY <1>3, Zenon DEF OpenInv
    <3> QED
      BY <3>1, <3>2, Zenon DEF Touches
  <2> QED
    BY <2>2, <2>3, <2>4, <2>5, Zenon DEF Effect, Steps
<1>5. CASE UNCHANGED files /\ (Goto(g, "failed") \/ (PublicPath(g) = None /\ Goto(g, "write private")))
  <2>1. /\ pc' = [pc EXCEPT ![g] = pc'[g]]
        /\ pc'[g] = "failed" \/ (pc'[g] = "write private" /\ PublicPath(g) = None)
    BY <1>5, Zenon DEF Goto, Typed
  <2>2. \A p \in OpenPaths(g)' : p \in OpenPaths(g)
    BY <1>2, <1>3, <2>1, KeygenAssumption, Zenon DEF OpenPaths, Steps
  <2>3. files' \in [Path -> File] /\ \A p \in Path : Touches(g, p)
    BY <1>5, Zenon DEF Typed, Touches
  <2>4. flags[g].path # None /\ ~flags[g].insecure_priv => ~files[flags[g].path].wide
    BY <1>3, Zenon DEF OpenInv
  <2> QED
    BY <1>5, <2>1, <2>2, <2>3, <2>4, ZenonT(60) DEF Effect, Steps
<1> QED
  BY <1>4, <1>5, Zenon DEF OpenPublic, Fail

\* Writing a key changes the content of one file.
LEMMA WriteContent ==
  ASSUME Typed, NEW q \in Path, NEW c \in Content, files' = [files EXCEPT ![q].content = c]
  PROVE  /\ files' \in [Path -> File]
         /\ \A p \in Path \ {q} : files'[p] = files[p]
         /\ files'[q].content = c /\ files'[q].kind = files[q].kind
         /\ files'[q].wide = files[q].wide
<1>1. \A p \in Path : files[p] \in File
  BY DEF Typed
<1>2. files'[q] = [files[q] EXCEPT !.content = c] /\ \A p \in Path \ {q} : files'[p] = files[p]
  BY DEF Typed
<1>3. /\ files'[q] \in File /\ files'[q].content = c /\ files'[q].kind = files[q].kind
      /\ files'[q].wide = files[q].wide
  BY <1>1, <1>2 DEF File
<1>4. files' \in [Path -> File]
  BY <1>1, <1>2, <1>3 DEF Typed
<1> QED
  BY <1>2, <1>3, <1>4

\* Writing the private key.
LEMMA WritePrivateEffect ==
  ASSUME Typed, OpenInv, NEW g \in Command, WritePrivate(g), UNCHANGED flags
  PROVE  Effect(g)
<1> DEFINE q == flags[g].path
           whole == <<"secret", g>>
           part == <<"secret", g, "part">>
<1>1. flags[g].path \in Path \cup {None} /\ PublicPath(g) \in Path \cup {None}
  BY Paths
<1>2. PublicPath(g)' = PublicPath(g)
  BY DEF PublicPath
<1>3. pc[g] = "write private" /\ (q # None => q \in OpenPaths(g))
  BY <1>1, Zenon DEF WritePrivate, OpenPaths, Steps
<1>4. /\ pc' = [pc EXCEPT ![g] = pc'[g]] /\ pc'[g] \in {"write public", "failed"}
      /\ \/ UNCHANGED files /\ (q = None \/ pc'[g] = "failed")
         \/ q # None /\ files' = [files EXCEPT ![q].content = whole] /\ pc'[g] = "write public"
         \/ q # None /\ files' = [files EXCEPT ![q].content = part] /\ pc'[g] = "failed"
  <2>1. \/ Goto(g, "write public") /\ q = None /\ UNCHANGED files
        \/ Goto(g, "write public") /\ q # None /\ files' = [files EXCEPT ![q].content = whole]
        \/ Goto(g, "failed") /\ UNCHANGED files
        \/ Goto(g, "failed") /\ q # None /\ files' = [files EXCEPT ![q].content = part]
    BY Zenon DEF WritePrivate, Write
  <2>2. Goto(g, "write public") => pc' = [pc EXCEPT ![g] = pc'[g]] /\ pc'[g] = "write public"
    BY Zenon DEF Goto, Typed
  <2>3. Goto(g, "failed") => pc' = [pc EXCEPT ![g] = pc'[g]] /\ pc'[g] = "failed"
    BY DEF Goto, Typed
  <2> QED
    BY <2>1, <2>2, <2>3, Zenon
<1>5. \A p \in OpenPaths(g)' : p \in OpenPaths(g)
  BY <1>2, <1>3, <1>4, Zenon DEF OpenPaths, Steps
<1>6. flags[g].path # None /\ ~flags[g].insecure_priv => ~files[flags[g].path].wide
  BY <1>3, Zenon DEF OpenInv
<1>7. CASE UNCHANGED files /\ (q = None \/ pc'[g] = "failed")
  <2>1. files' \in [Path -> File] /\ \A p \in Path : Touches(g, p)
    BY <1>7 DEF Typed, Touches
  <2> QED
    BY <1>3, <1>4, <1>5, <1>6, <1>7, <2>1, ZenonT(60) DEF Effect, Steps
<1>8. ASSUME q # None, NEW c \in {whole, part}, files' = [files EXCEPT ![q].content = c],
             c = whole \/ pc'[g] = "failed"
      PROVE  Effect(g)
  <2>1. c \in Content /\ q \in Path
    BY <1>1, <1>8, Contents, ZenonT(60)
  <2>2. /\ files' \in [Path -> File]
        /\ \A p \in Path \ {q} : files'[p] = files[p]
        /\ files'[q].content = c /\ files'[q].kind = files[q].kind
        /\ files'[q].wide = files[q].wide
    BY <1>8, <2>1, WriteContent, ZenonT(60)
  <2>3. Touches(g, q)
    BY <1>3, <1>8, <2>2, Zenon DEF Touches
  <2>4. \A p \in Path : Touches(g, p)
    BY <2>2, <2>3, Zenon DEF Touches
  <2>5. flags[g].path # None /\ ~flags[g].insecure_priv => ~files'[flags[g].path].wide
    BY <1>1, <1>6, <2>2
  <2>6. flags[g].path # None /\ flags[g].path # q => files'[flags[g].path] = files[flags[g].path]
    BY <1>1, <2>2
  <2> QED
    BY <1>3, <1>4, <1>5, <1>8, <2>2, <2>4, <2>5, <2>6, ZenonT(60) DEF Effect, Steps
<1> QED
  BY <1>4, <1>7, <1>8, Zenon

\* Writing the public key.
LEMMA WritePublicEffect ==
  ASSUME Typed, OpenInv, NEW g \in Command, WritePublic(g), UNCHANGED flags
  PROVE  Effect(g)
<1> DEFINE q == PublicPath(g)
           whole == <<"public", g>>
           part == <<"public", g, "part">>
<1>1. flags[g].path \in Path \cup {None} /\ PublicPath(g) \in Path \cup {None}
  BY Paths
<1>2. PublicPath(g)' = PublicPath(g)
  BY DEF PublicPath
<1>3. pc[g] = "write public" /\ (q # None => q \in OpenPaths(g))
  BY <1>1, Zenon DEF WritePublic, OpenPaths, Steps
<1>4. /\ pc' = [pc EXCEPT ![g] = pc'[g]] /\ pc'[g] \in {"done", "failed"}
      /\ \/ UNCHANGED files /\ (q = None \/ pc'[g] = "failed")
         \/ q # None /\ files' = [files EXCEPT ![q].content = whole] /\ pc'[g] = "done"
         \/ q # None /\ files' = [files EXCEPT ![q].content = part] /\ pc'[g] = "failed"
  <2>1. \/ Goto(g, "done") /\ q = None /\ UNCHANGED files
        \/ Goto(g, "done") /\ q # None /\ files' = [files EXCEPT ![q].content = whole]
        \/ Goto(g, "failed") /\ UNCHANGED files
        \/ Goto(g, "failed") /\ q # None /\ files' = [files EXCEPT ![q].content = part]
    BY Zenon DEF WritePublic, Write
  <2>2. Goto(g, "done") => pc' = [pc EXCEPT ![g] = pc'[g]] /\ pc'[g] = "done"
    BY DEF Goto, Typed
  <2>3. Goto(g, "failed") => pc' = [pc EXCEPT ![g] = pc'[g]] /\ pc'[g] = "failed"
    BY DEF Goto, Typed
  <2> QED
    BY <2>1, <2>2, <2>3
<1>5. \A p \in OpenPaths(g)' : p \in OpenPaths(g)
  BY <1>2, <1>3, <1>4, Zenon DEF OpenPaths, Steps
<1>6. flags[g].path # None /\ ~flags[g].insecure_priv => ~files[flags[g].path].wide
  BY <1>3, Zenon DEF OpenInv
<1>7. CASE UNCHANGED files /\ (q = None \/ pc'[g] = "failed")
  <2>1. files' \in [Path -> File] /\ \A p \in Path : Touches(g, p)
    BY <1>7 DEF Typed, Touches
  <2> QED
    BY <1>3, <1>4, <1>5, <1>6, <1>7, <2>1, ZenonT(60) DEF Effect, Steps
<1>8. ASSUME q # None, NEW c \in {whole, part}, files' = [files EXCEPT ![q].content = c],
             c = whole \/ pc'[g] = "failed"
      PROVE  Effect(g)
  <2>1. c \in Content /\ q \in Path
    BY <1>1, <1>8, Contents, ZenonT(60)
  <2>2. /\ files' \in [Path -> File]
        /\ \A p \in Path \ {q} : files'[p] = files[p]
        /\ files'[q].content = c /\ files'[q].kind = files[q].kind
        /\ files'[q].wide = files[q].wide
    BY <1>8, <2>1, WriteContent, ZenonT(60)
  <2>3. Touches(g, q)
    BY <1>3, <1>8, <2>2, Zenon DEF Touches
  <2>4. \A p \in Path : Touches(g, p)
    BY <2>2, <2>3, Zenon DEF Touches
  <2>5. flags[g].path # None /\ ~flags[g].insecure_priv => ~files'[flags[g].path].wide
    BY <1>1, <1>6, <2>2
  <2>6. flags[g].path # None /\ flags[g].path # q => files'[flags[g].path] = files[flags[g].path]
    BY <1>1, <2>2
  <2> QED
    BY <1>3, <1>4, <1>5, <1>8, <2>2, <2>4, <2>5, <2>6, ZenonT(60) DEF Effect, Steps
<1> QED
  BY <1>4, <1>7, <1>8

\* Every step of a command.
LEMMA StepEffect ==
  ASSUME Typed, OpenInv, NEW g \in Command, Step(g), UNCHANGED flags
  PROVE  Effect(g)
BY OpenPrivateEffect, RestrictEffect, OpenPublicEffect, WritePrivateEffect, WritePublicEffect
   DEF Step

\* A step of one command preserves Inv.
LEMMA StepInv ==
  ASSUME Inv, NEW g \in Command, Step(g), UNCHANGED flags
  PROVE  Inv'
<1> USE DEF Inv
<1>1. Effect(g)
  BY StepEffect
<1>2. \A h \in Command \ {g} : pc'[h] = pc[h]
  BY <1>1, Zenon DEF Effect, Typed
<1>3. ASSUME NEW h \in Command
      PROVE  PublicPath(h)' = PublicPath(h) /\ FilesOf(h)' = FilesOf(h)
  BY DEF PublicPath, FilesOf
<1>4. ASSUME NEW h \in Command \ {g} PROVE OpenPaths(h)' = OpenPaths(h)
  BY <1>2, <1>3, Zenon DEF OpenPaths
<1>5. \A p \in Path : files'[p].kind = "absent" => files'[p] = files[p]
  BY <1>1, Zenon DEF Effect, Touches, OpenInv
<1>6. Typed'
  BY <1>1, <1>5, Zenon DEF Effect, Typed
<1>7. ASSUME NEW h \in Command, NEW p \in OpenPaths(h)'
      PROVE  files'[p].kind = "file" /\ (~flags[h].override_files => files'[p].content # Old)
  <2>1. p \in Path
    BY <1>7, Zenon DEF OpenPaths
  <2>2. Touches(g, p)
    BY <1>1, <2>1, Zenon DEF Effect
  <2>3. CASE p \in OpenPaths(h)
    <3>1. files[p].kind = "file" /\ (~flags[h].override_files => files[p].content # Old)
      BY <2>3, Zenon DEF OpenInv
    <3>2. files'[p].kind = "file"
      BY <2>2, <3>1, Zenon DEF Touches
    <3>3. files'[p].content = files[p].content \/ files'[p].content # Old
      BY <2>2, Contents, Zenon DEF Touches
    <3> QED
      BY <3>1, <3>2, <3>3
  <2>4. CASE p \notin OpenPaths(h)
    <3>1. h = g
      BY <1>4, <1>7, <2>4
    <3>2. files'[p].kind = "file" /\ files'[p].content = <<>>
      BY <1>1, <1>7, <2>4, <3>1, Zenon DEF Effect
    <3> QED
      BY <3>2, Contents, ZenonT(60)
  <2> QED
    BY <2>3, <2>4
<1>8. ASSUME NEW h \in Command,
             pc'[h] \in {"open public", "write private", "write public", "done"},
             flags[h].path # None, ~flags[h].insecure_priv
      PROVE  ~files'[flags[h].path].wide
  <2>1. CASE h = g
    BY <1>1, <1>8, <2>1, Zenon DEF Effect
  <2>2. CASE h # g
    <3>1. flags[h].path \in Path /\ pc[h] = pc'[h]
      BY <1>2, <1>8, <2>2, Paths, Zenon
    <3>2. flags[h].path \in OpenPaths(h)
      BY <1>8, <3>1, Zenon DEF OpenPaths, Steps
    <3>3. ~files[flags[h].path].wide /\ files[flags[h].path].kind = "file"
      BY <1>8, <3>1, <3>2, Zenon DEF OpenInv
    <3>4. Touches(g, flags[h].path)
      BY <1>1, <3>1, Zenon DEF Effect
    <3> QED
      BY <3>3, <3>4, Zenon DEF Touches
  <2> QED
    BY <2>1, <2>2
<1>9. \A h \in Command : pc'[h] = "restrict" => flags[h].path # None
  BY <1>1, <1>2, Zenon DEF Effect, OpenInv
<1>10. OpenInv'
  BY <1>7, <1>8, <1>9, Zenon DEF OpenInv
<1>11. ASSUME NEW h \in Command, NEW k \in Command PROVE Apart(h, k)' <=> Apart(h, k)
  BY <1>3 DEF Apart
<1>12. ASSUME NEW h \in Command \ {g}, Apart(g, h) \/ Apart(h, g), NEW p \in OpenPaths(g)'
       PROVE  p \notin OpenPaths(h)
  <2>1. Apart(g, h)
    BY <1>12 DEF Apart
  <2>2. CASE p \in OpenPaths(g)
    BY <2>1, <2>2 DEF ApartInv
  <2>3. CASE p \notin OpenPaths(g)
    <3>1. CanOpen(files[p].kind, flags[g].override_files)
      BY <1>1, <1>12, <2>3, Zenon DEF Effect
    <3>2. CASE FilesOf(g) \cap FilesOf(h) = {}
      <4>1. p \in Path /\ p \in {flags[g].path, PublicPath(g)}
        BY <1>3, <1>12, Zenon DEF OpenPaths
      <4> QED
        BY <3>2, <4>1, KeygenAssumption, Zenon DEF OpenPaths, FilesOf
    <3>3. CASE ~flags[g].override_files
      <4>1. files[p].kind = "absent"
        BY <3>1, <3>3 DEF CanOpen
      <4> QED
        BY <4>1, Zenon DEF OpenInv
    <3> QED
      BY <2>1, <3>2, <3>3 DEF Apart
  <2> QED
    BY <2>2, <2>3
<1>13. ApartInv'
  <2> SUFFICES ASSUME NEW h \in Command, NEW k \in Command, h # k, Apart(h, k)
               PROVE  OpenPaths(h)' \cap OpenPaths(k)' = {}
    BY <1>11 DEF ApartInv
  <2>1. CASE h # g /\ k # g
    BY <1>4, <2>1 DEF ApartInv
  <2>2. CASE h = g
    BY <1>4, <1>12, <2>2
  <2>3. CASE k = g
    BY <1>4, <1>12, <2>3
  <2> QED
    BY <2>1, <2>2, <2>3
<1>14. ASSUME NEW h \in Command \ {g}, Apart(h, g), NEW p \in OpenPaths(h)
       PROVE  files'[p] = files[p]
  <2>1. p \in Path /\ p \in FilesOf(h) /\ files[p].kind = "file"
    BY <1>14, KeygenAssumption, Zenon DEF OpenPaths, FilesOf, OpenInv
  <2>2. p \notin OpenPaths(g)
    BY <1>14 DEF ApartInv
  <2>3. ~(p \in FilesOf(g) /\ CanOpen(files[p].kind, flags[g].override_files))
    BY <1>14, <2>1 DEF Apart, CanOpen
  <2> QED
    BY <1>1, <2>1, <2>2, <2>3, Zenon DEF Effect, Touches
<1>15. ASSUME NEW h \in Command, \A k \in Command \ {h} : Apart(h, k),
              flags[h].path = None \/ flags[h].path # PublicPath(h)
       PROVE  /\ pc'[h] \in {"write public", "done"} /\ flags[h].path # None
                   => files'[flags[h].path].content = <<"secret", h>>
              /\ pc'[h] = "done" /\ PublicPath(h) # None
                   => files'[PublicPath(h)].content = <<"public", h>>
  <2>1. /\ pc[h] \in {"write public", "done"} /\ flags[h].path # None
             => files[flags[h].path].content = <<"secret", h>>
        /\ pc[h] = "done" /\ PublicPath(h) # None
             => files[PublicPath(h)].content = <<"public", h>>
    BY <1>15, Zenon DEF PairInv
  <2>2. CASE h = g
    BY <1>1, <1>15, <2>1, <2>2, ZenonT(60) DEF Effect
  <2>3. CASE h # g
    <3>1. pc'[h] = pc[h] /\ \A p \in OpenPaths(h) : files'[p] = files[p]
      BY <1>2, <1>14, <1>15, <2>3
    <3>2. flags[h].path \in Path \cup {None} /\ PublicPath(h) \in Path \cup {None}
      BY Paths
    <3>3. /\ pc[h] \in {"write public", "done"} /\ flags[h].path # None
                => flags[h].path \in OpenPaths(h)
          /\ pc[h] = "done" /\ PublicPath(h) # None => PublicPath(h) \in OpenPaths(h)
      BY <3>2, Zenon DEF OpenPaths, Steps
    <3> QED
      BY <2>1, <3>1, <3>3, Zenon
  <2> QED
    BY <2>2, <2>3, Zenon
<1>16. PairInv'
  <2> SUFFICES ASSUME NEW h \in Command,
                      (\A k \in Command \ {h} : Apart(h, k))',
                      (flags[h].path = None \/ flags[h].path # PublicPath(h))'
               PROVE  (/\ pc[h] \in {"write public", "done"} /\ flags[h].path # None
                            => files[flags[h].path].content = <<"secret", h>>
                       /\ pc[h] = "done" /\ PublicPath(h) # None
                            => files[PublicPath(h)].content = <<"public", h>>)'
    BY Zenon DEF PairInv
  <2>1. \A k \in Command \ {h} : Apart(h, k)
    BY <1>11
  <2>2. PublicPath(h)' = PublicPath(h)
    BY <1>3
  <2> QED
    BY <1>15, <2>1, <2>2, Zenon
<1>17. ASSUME NEW p \in Path, NEW h \in Command,
              Holds(files'[p].content, h), ~flags[h].insecure_priv
       PROVE  ~files'[p].wide
  <2>1. Touches(g, p)
    BY <1>1, Zenon DEF Effect
  <2>2. CASE files'[p].content = files[p].content /\ (files'[p].wide => files[p].wide)
    BY <1>17, <2>2 DEF SecretNotExposed, Holds
  <2>3. CASE files'[p].content \in {<<"secret", g>>, <<"secret", g, "part">>}
             /\ p = flags[g].path /\ pc[g] = "write private" /\ files'[p].wide = files[p].wide
    <3>1. h = g
      BY <1>17, <2>3, Contents, Zenon
    <3>2. ~files[p].wide
      BY <1>17, <2>3, <3>1, KeygenAssumption, Zenon DEF OpenInv
    <3> QED
      BY <2>3, <3>2, Zenon
  <2>4. files'[p].content # <<>>
    BY <1>17, Contents, ZenonT(60)
  <2>5. ~(files'[p].content \in {<<"public", g>>, <<"public", g, "part">>})
    BY <1>17, Contents, ZenonT(60)
  <2> QED
    BY <2>1, <2>2, <2>3, <2>4, <2>5, Zenon DEF Touches
<1>18. SecretNotExposed'
  BY <1>17 DEF SecretNotExposed, Holds
<1> QED
  BY <1>6, <1>10, <1>13, <1>16, <1>18

\* Every step of the commands keeps Inv.
LEMMA KeysStep == Inv /\ [Next]_vars => Inv'
<1> SUFFICES ASSUME Inv, [Next]_vars PROVE Inv'
  OBVIOUS
<1>1. CASE Next
  BY <1>1, StepInv DEF Next, Step
<1>2. CASE UNCHANGED vars
  <2> USE <1>2 DEF vars, Inv
  <2>1. Typed' /\ SecretNotExposed'
    BY DEF Typed, SecretNotExposed
  <2>2. OpenInv'
    BY Zenon DEF OpenInv, OpenPaths, PublicPath
  <2>3. ApartInv'
    <3>1. ASSUME NEW h \in Command PROVE OpenPaths(h)' = OpenPaths(h)
      BY DEF OpenPaths, PublicPath
    <3>2. ASSUME NEW h \in Command, NEW k \in Command PROVE Apart(h, k)' <=> Apart(h, k)
      BY DEF Apart, FilesOf, PublicPath
    <3> QED
      BY <3>1, <3>2 DEF ApartInv
  <2>4. PairInv'
    <3>1. ASSUME NEW h \in Command PROVE PublicPath(h)' = PublicPath(h)
      BY DEF PublicPath
    <3>2. ASSUME NEW h \in Command, NEW k \in Command PROVE Apart(h, k)' <=> Apart(h, k)
      BY DEF Apart, FilesOf, PublicPath
    <3> QED
      BY <3>1, <3>2, Zenon DEF PairInv
  <2> QED
    BY <2>1, <2>2, <2>3, <2>4
<1> QED
  BY <1>1, <1>2

\* The process was not started for generate.
Unused ==
  /\ pc = [g \in Command |-> "not run"]
  /\ \A p \in Path : files[p].wide = FALSE

\* Where no command runs, none takes a step.
LEMMA NothingRuns ==
  ASSUME pc = [g \in Command |-> "not run"]
  PROVE  ~Next
  BY Zenon DEF Next, OpenPrivate, RestrictPrivate, OpenPublic, WritePrivate, WritePublic

\* In every reachable state, either Inv holds or there is no command.
LEMMA KeysInvariant == AppSpec => [](Inv \/ Unused)
<1>1. Dispatch => Inv \/ Unused
  <2>1. ASSUME NoGenerate PROVE Unused
    <3>1. \A p \in Path : files[p] = [kind |-> "absent", content |-> <<>>, wide |-> FALSE]
      BY <2>1, Zenon DEF NoGenerate
    <3> QED
      BY <2>1, <3>1, Zenon DEF NoGenerate, Unused
  <2> QED
    BY <2>1, InitInv DEF Dispatch
<1>2. (Inv \/ Unused) /\ [AppNext]_<<vars, runVars>> => (Inv \/ Unused)'
  <2> SUFFICES ASSUME Inv \/ Unused, [AppNext]_<<vars, runVars>>
               PROVE  (Inv \/ Unused)'
    OBVIOUS
  <2>1. [Next]_vars
    BY DEF AppNext
  <2>2. CASE Inv
    BY <2>1, <2>2, KeysStep
  <2>3. CASE Unused
    BY <2>1, <2>3, NothingRuns, Zenon DEF Unused, vars
  <2> QED
    BY <2>2, <2>3
<1> QED
  BY <1>1, <1>2, PTL DEF AppSpec

\* No secret key is ever in a file that others may read (keygen.rs, the mode is
\* restricted before the key is written), for any number of commands.
THEOREM SecretsStayPrivate == AppSpec => []SecretNotExposed
<1>1. Inv \/ Unused => SecretNotExposed
  BY Zenon DEF Inv, Unused, SecretNotExposed
<1> QED
  BY <1>1, KeysInvariant, PTL

\* A command that succeeded leaves its pair of keys (keygen.rs, exclusive
\* creation), whatever the commands apart from it do.
THEOREM SuccessMeansPair == AppSpec => []SuccessLeavesPair
<1>1. Inv => SuccessLeavesPair
  BY Zenon DEF Inv, PairInv, SuccessLeavesPair
<1>2. Unused => SuccessLeavesPair
  BY Zenon DEF Unused, SuccessLeavesPair
<1> QED
  BY <1>1, <1>2, KeysInvariant, PTL

\* A file that was there is only ever touched by a command that overrides, and
\* a link's target by none (keygen.rs, create_new and O_NOFOLLOW).
THEOREM OldFilesStay == AppSpec => OldFilesKept
<1>1. ASSUME Inv, Next, NEW p \in Path,
             files[p].kind = "link" \/ (files[p].content = Old /\ ~Overrides)
      PROVE  files'[p] = files[p]
  <2>1. PICK g \in Command : Step(g) /\ UNCHANGED flags
    BY <1>1 DEF Next, Step
  <2>2. Touches(g, p)
    BY <1>1, <2>1, StepEffect, Zenon DEF Effect, Inv
  <2>3. p \notin OpenPaths(g)
    BY <1>1, <2>1, Zenon DEF Inv, OpenInv, Overrides
  <2>4. files[p].kind = "absent" => files[p].content # Old
    BY <1>1, <2>1, Contents, ZenonT(60) DEF Inv, Typed
  <2>5. ~CanOpen(files[p].kind, flags[g].override_files)
    BY <1>1, <2>1, <2>4 DEF CanOpen, Overrides
  <2> QED
    BY <2>2, <2>3, <2>5, Zenon DEF Touches
<1>2. (Inv \/ Unused) /\ [AppNext]_<<vars, runVars>> =>
        [\A p \in Path : files[p].kind = "link" \/ (files[p].content = Old /\ ~Overrides)
           => files'[p] = files[p]]_vars
  BY <1>1, NothingRuns, Zenon DEF AppNext, Unused
<1> QED
  BY <1>2, KeysInvariant, PTL DEF AppSpec, OldFilesKept

-----------------------------------------------------------------------------
(* The run command.                                                        *)

Task == Nat \X Nat \X (Service!AllTasks \cup {"OpenDHT tick loop"})

\* The tasks that were ever spawned.
Spawned == alive \cup ended \cup Service!ToSet(reports)

SetupState == [peer : Nat \ {0}, step : {"open", "gather", "bind"},
               error : {<<>>, <<"internet socket">>, <<"loopback socket">>}]

RunTypes ==
  /\ command \in Service!RunCommand
  /\ run_pc \in {"not run", "validate", "dht", "setup", "supervise", "returned"}
  /\ run_pc \in {"setup", "supervise"} => setups \in [Service!Connection -> SetupState]
  /\ alive \in SUBSET Task /\ ended \in SUBSET Task /\ reports \in Seq(Task)

\* A set-up has spawned all tasks of the peers it is done with, and those of the
\* peer it is at up to its step.
SetUp(c) ==
  \A i \in 1..Len(Service!PeersOf(c)) :
    /\ i < setups[c].peer => Service!Of(c, i, Service!AllTasks) \subseteq Spawned
    /\ i = setups[c].peer /\ setups[c].step # "open" =>
         Service!Of(c, i, Service!SocketTasks) \subseteq Spawned
    /\ i = setups[c].peer /\ setups[c].step = "bind" =>
         Service!Of(c, i, {"STUN candidate gathering"}) \subseteq Spawned

Progress ==
  /\ run_pc \in {"setup", "supervise"} => \A c \in Service!Connection : SetUp(c)
  /\ run_pc = "supervise" =>
       \A c \in Service!Connection : setups[c].peer > Len(Service!PeersOf(c))

\* The channel holds the first report, and run has not returned another.
Reason ==
  /\ failure = IF reports = <<>> THEN <<>> ELSE <<reports[1]>>
  /\ changed => reports # <<>>
  /\ run_pc = "returned" /\ result[1] = "task" => result[2] = <<reports[1]>>

RunInv == RunTypes /\ Progress /\ Reason

-----------------------------------------------------------------------------
\* What is in a sequence after an element is added to it.
LEMMA Appended ==
  ASSUME NEW S, NEW s \in Seq(S), NEW e \in S
  PROVE  /\ Append(s, e) \in Seq(S) /\ Append(s, e) # <<>>
         /\ Service!ToSet(Append(s, e)) = Service!ToSet(s) \cup {e}
         /\ Append(s, e)[1] = IF s = <<>> THEN e ELSE s[1]
<1>1. /\ Append(s, e) \in Seq(S) /\ Len(Append(s, e)) = Len(s) + 1 /\ Len(s) \in Nat
      /\ \A i \in 1..Len(s) : Append(s, e)[i] = s[i]
      /\ Append(s, e)[Len(s) + 1] = e
  OBVIOUS
<1>2. Append(s, e) # <<>>
  BY <1>1
<1>3. Append(s, e)[1] = IF s = <<>> THEN e ELSE s[1]
  <2>1. CASE s = <<>>
    BY <1>1, <2>1
  <2>2. CASE s # <<>>
    <3>1. 1 \in 1..Len(s)
      BY <2>2
    <3> QED
      BY <1>1, <2>2, <3>1
  <2> QED
    BY <2>1, <2>2
<1>4. Service!ToSet(Append(s, e)) = Service!ToSet(s) \cup {e}
  BY <1>1 DEF Service!ToSet
<1> QED
  BY <1>1, <1>2, <1>3, <1>4

\* Spawned tasks are never forgotten, so a set-up that does not move keeps what
\* it has.
LEMMA StillSetUp ==
  ASSUME NEW c, SetUp(c), UNCHANGED <<command, setups[c]>>, Spawned \subseteq Spawned'
  PROVE  SetUp(c)'
  BY Zenon DEF SetUp, Service!PeersOf

\* A connection has a number, and a sequence of peers.
LEMMA Numbered ==
  ASSUME RunTypes, NEW c \in Service!Connection
  PROVE  /\ c \in Nat /\ Len(Service!PeersOf(c)) \in Nat
         /\ DOMAIN Service!PeersOf(c) = 1..Len(Service!PeersOf(c))
         /\ Service!Connection = 1..Len(command.connections)
<1>1. command.connections \in Seq(Service!ConnectionConfig)
  BY Zenon DEF RunTypes, Service!RunCommand
<1>2. /\ Service!Connection = 1..Len(command.connections)
      /\ Len(command.connections) \in Nat
  BY <1>1 DEF Service!Connection
<1>3. command.connections[c] \in Service!ConnectionConfig
  BY <1>1, <1>2
<1>4. Service!PeersOf(c) \in Seq(Service!PeerConfig)
  BY <1>3 DEF Service!PeersOf, Service!ConnectionConfig
<1>5. c \in Nat
  BY <1>2
<1>6. /\ Len(Service!PeersOf(c)) \in Nat
      /\ DOMAIN Service!PeersOf(c) = 1..Len(Service!PeersOf(c))
  BY <1>4
<1> QED
  BY <1>2, <1>5, <1>6

\* Names of tasks.
LEMMA Tasks ==
  ASSUME NEW c \in Nat, NEW i \in Nat, NEW names \in SUBSET Service!AllTasks
  PROVE  Service!Of(c, i, names) \subseteq Task
<1> SUFFICES ASSUME NEW name \in names PROVE <<c, i, name>> \in Task
  BY DEF Service!Of
<1> QED
  BY Zenon DEF Task

\* The program starts in RunInv.
LEMMA InitRun == Dispatch => RunInv
<1> SUFFICES ASSUME Dispatch PROVE RunInv
  OBVIOUS
<1>1. /\ command \in Service!RunCommand
      /\ run_pc \in {"not run", "validate"}
      /\ alive = {} /\ ended = {} /\ reports = <<>>
      /\ failure = <<>> /\ changed = FALSE
  <2>1. CASE NoRun
    <3>1. command = [out_port |-> 0, connections |-> <<>>]
      BY <2>1, Zenon DEF NoRun
    <3>2. command \in Service!RunCommand
      BY <3>1 DEF Service!RunCommand
    <3> QED
      BY <2>1, <3>2, Zenon DEF NoRun
  <2>2. CASE Service!Init
    BY <2>2, CommandAssumption DEF Service!Init
  <2> QED
    BY <2>1, <2>2, Zenon DEF Dispatch
<1>2. RunTypes
  <2>1. <<>> \in Seq(Task)
    OBVIOUS
  <2>2. reports \in Seq(Task)
    BY <1>1, <2>1, Zenon
  <2> QED
    BY <1>1, <2>2, Zenon DEF RunTypes
<1>3. Progress
  BY <1>1, Zenon DEF Progress
<1>4. Reason
  BY <1>1, Zenon DEF Reason
<1> QED
  BY <1>2, <1>3, <1>4 DEF RunInv

\* Steps up to the set-ups.
LEMMA EarlySteps ==
  ASSUME RunInv, Service!Validate \/ Service!StartDht
  PROVE  RunInv'
<1>1. CASE Service!Validate
  <2>1. /\ run_pc' \in {"returned", "dht"} /\ (run_pc' = "returned" => result'[1] # "task")
        /\ UNCHANGED <<command, alive, ended, failure, changed, reports>>
    BY <1>1 DEF Service!Validate, Service!Return, Service!taskVars
  <2>2. RunTypes' /\ Progress'
    BY <2>1, Zenon DEF RunInv, RunTypes, Progress
  <2>3. Reason'
    BY <2>1 DEF RunInv, Reason
  <2> QED
    BY <2>2, <2>3 DEF RunInv
<1>2. CASE Service!StartDht
  <2>1. CASE Service!Return("dht", <<>>) /\ UNCHANGED <<setups, alive>>
    BY <1>2, <2>1 DEF RunInv, RunTypes, Progress, Reason, Service!StartDht, Service!Return
  <2>2. CASE /\ run_pc' = "setup"
             /\ setups' = [c \in Service!Connection |-> [peer |-> 1, step |-> "open", error |-> <<>>]]
             /\ alive' = {Service!DhtTask}
    <3>1. UNCHANGED <<command, ended, failure, changed, reports>>
      BY <1>2 DEF Service!StartDht
    <3>2. Service!DhtTask \in Task
      BY Zenon DEF Service!DhtTask, Task
    <3>3. RunTypes'
      <4>1. [peer |-> 1, step |-> "open", error |-> <<>>] \in SetupState
        BY DEF SetupState
      <4>2. setups' \in [Service!Connection -> SetupState] /\ Service!Connection' = Service!Connection
        BY <2>2, <3>1, <4>1 DEF Service!Connection
      <4> QED
        BY <2>2, <3>1, <3>2, <4>2, Zenon DEF RunInv, RunTypes
    <3>4. Progress'
      <4>1. ASSUME NEW c \in Service!Connection' PROVE SetUp(c)'
        <5>1. setups'[c] = [peer |-> 1, step |-> "open", error |-> <<>>]
          BY <2>2, <3>1 DEF Service!Connection
        <5> QED
          BY <5>1 DEF SetUp
      <4> QED
        BY <2>2, <4>1 DEF Progress
    <3>5. Reason'
      BY <2>2, <3>1 DEF RunInv, Reason
    <3> QED
      BY <3>3, <3>4, <3>5 DEF RunInv
  <2> QED
    BY <1>2, <2>1, <2>2, SMTT(30) DEF Service!StartDht
<1> QED
  BY <1>1, <1>2

\* One set-up moves; the others stay as they are.
LEMMA OneMoves ==
  ASSUME RunInv, NEW c \in Service!Connection, run_pc = "setup",
         NEW s \in SetupState, setups' = [setups EXCEPT ![c] = s],
         alive \subseteq alive', alive' \subseteq Task,
         UNCHANGED <<command, run_pc, result, ended, failure, changed, reports>>,
         SetUp(c)'
  PROVE  RunInv'
<1>1. setups \in [Service!Connection -> SetupState] /\ Service!Connection' = Service!Connection
  BY DEF RunInv, RunTypes, Service!Connection
<1>2. RunTypes'
  BY <1>1 DEF RunInv, RunTypes
<1>3. Progress'
  <2>1. ASSUME NEW d \in Service!Connection, d # c
        PROVE  SetUp(d)'
    <3>1. SetUp(d)
      BY DEF RunInv, Progress
    <3>2. setups'[d] = setups[d]
      BY <1>1, <2>1
    <3>3. Spawned \subseteq Spawned'
      BY DEF Spawned
    <3> QED
      BY <3>1, <3>2, <3>3, StillSetUp
  <2> QED
    BY <1>1, <2>1 DEF Progress
<1>4. Reason'
  BY DEF RunInv, Reason
<1> QED
  BY <1>2, <1>3, <1>4 DEF RunInv

\* Steps of one set-up.
LEMMA SetupSteps ==
  ASSUME RunInv, NEW c \in Service!Connection, Service!Setup(c)
  PROVE  RunInv'
<1> DEFINE me == setups[c]
           i == setups[c].peer
           n == Len(Service!PeersOf(c))
<1>1. /\ run_pc = "setup" /\ ~Service!Finished(c)
      /\ UNCHANGED <<command, run_pc, result, ended, failure, changed, reports>>
  BY Zenon DEF Service!Setup, Service!OpenSocket, Service!StartGathering, Service!BindLoopback,
         Service!AtStep
<1>2. /\ setups \in [Service!Connection -> SetupState] /\ me \in SetupState
      /\ alive \subseteq Task /\ SetUp(c)
  BY <1>1 DEF RunInv, RunTypes, Progress
<1>3. c \in Nat /\ n \in Nat /\ i \in Nat /\ n' = n /\ i \in 1..n
  <2>1. c \in Nat /\ n \in Nat /\ n' = n
    BY <1>1, Numbered DEF RunInv, Service!PeersOf
  <2>2. i \in Nat \ {0}
    BY <1>2, Zenon DEF SetupState
  <2> QED
    BY <1>1, <2>1, <2>2 DEF Service!Finished
<1>4. \A names \in SUBSET Service!AllTasks : Service!Of(c, i, names) \subseteq Task
  BY <1>3, Tasks
<1>5. ASSUME NEW error \in {"internet socket", "loopback socket"}, Service!Fails(c, error)
      PROVE  RunInv'
  <2>1. setups' = [setups EXCEPT ![c] = [me EXCEPT !.error = <<error>>]] /\ UNCHANGED alive
    BY <1>2, <1>5, Zenon DEF Service!Fails
  <2>2. [me EXCEPT !.error = <<error>>] \in SetupState
    BY <1>2, Zenon DEF SetupState
  <2>3. setups'[c].peer = i /\ setups'[c].step = me.step
    BY <1>2, <2>1, Zenon DEF SetupState
  <2>4. Spawned' = Spawned
    BY <1>1, <2>1, Zenon DEF Spawned
  <2>5. SetUp(c)'
    BY <1>1, <1>2, <2>3, <2>4, Zenon DEF SetUp, Service!PeersOf
  <2> QED
    BY <1>1, <1>2, <2>1, <2>2, <2>5, OneMoves, ZenonT(60)
<1>6. CASE /\ setups' = [setups EXCEPT ![c].step = "gather"] /\ me.step = "open"
           /\ Service!Spawns(c, Service!SocketTasks)
  <2>1. setups' = [setups EXCEPT ![c] = [me EXCEPT !.step = "gather"]]
        /\ alive' = alive \cup Service!Of(c, i, Service!SocketTasks)
    BY <1>2, <1>6 DEF Service!Spawns
  <2>2. [me EXCEPT !.step = "gather"] \in SetupState
    BY <1>2, Zenon DEF SetupState
  <2>3. setups'[c].peer = i /\ setups'[c].step = "gather"
    BY <1>2, <2>1, Zenon DEF SetupState
  <2>4. Spawned' = Spawned \cup Service!Of(c, i, Service!SocketTasks)
    BY <1>1, <2>1 DEF Spawned
  <2>5. SetUp(c)'
    BY <1>1, <1>2, <2>3, <2>4, Zenon DEF SetUp, Service!PeersOf, Service!Of
  <2>6. alive' \subseteq Task
    BY <1>2, <1>4, <2>1, Zenon DEF Service!AllTasks
  <2> QED
    BY <1>1, <1>2, <2>1, <2>2, <2>5, <2>6, OneMoves, ZenonT(60)
<1>7. CASE /\ setups' = [setups EXCEPT ![c].step = "bind"] /\ me.step = "gather"
           /\ Service!Spawns(c, {"STUN candidate gathering"})
  <2>1. setups' = [setups EXCEPT ![c] = [me EXCEPT !.step = "bind"]]
        /\ alive' = alive \cup Service!Of(c, i, {"STUN candidate gathering"})
    BY <1>2, <1>7, Zenon DEF Service!Spawns
  <2>2. [me EXCEPT !.step = "bind"] \in SetupState
    BY <1>2, Zenon DEF SetupState
  <2>3. setups'[c].peer = i /\ setups'[c].step = "bind"
    BY <1>2, <2>1, Zenon DEF SetupState
  <2>4. Spawned' = Spawned \cup Service!Of(c, i, {"STUN candidate gathering"})
    BY <1>1, <2>1, Zenon DEF Spawned
  <2>5. SetUp(c)'
    BY <1>1, <1>2, <1>7, <2>3, <2>4, Zenon DEF SetUp, Service!PeersOf, Service!Of
  <2>6. alive' \subseteq Task
    BY <1>2, <1>4, <2>1, Zenon DEF Service!AllTasks
  <2> QED
    BY <1>1, <1>2, <2>1, <2>2, <2>5, <2>6, OneMoves, ZenonT(60)
<1>8. CASE /\ setups' = [setups EXCEPT ![c].step = "open", ![c].peer = @ + 1] /\ me.step = "bind"
           /\ Service!Spawns(c, Service!LoopbackTasks \cup Service!PeerTasks)
  <2> DEFINE rest == Service!LoopbackTasks \cup Service!PeerTasks
  <2>1. setups' = [setups EXCEPT ![c] = [me EXCEPT !.step = "open", !.peer = i + 1]]
        /\ alive' = alive \cup Service!Of(c, i, rest)
    BY <1>2, <1>8, Zenon DEF Service!Spawns
  <2>2. [me EXCEPT !.step = "open", !.peer = i + 1] \in SetupState
    <3>1. i + 1 \in Nat \ {0}
      BY <1>3
    <3>2. \A k \in Nat \ {0} : [me EXCEPT !.step = "open", !.peer = k] \in SetupState
      BY <1>2, Zenon DEF SetupState
    <3> QED
      BY <3>1, <3>2, ZenonT(60)
  <2>3. setups'[c].peer = i + 1 /\ setups'[c].step = "open"
    BY <1>2, <2>1, Zenon DEF SetupState
  <2>4. Spawned' = Spawned \cup Service!Of(c, i, rest)
    BY <1>1, <2>1 DEF Spawned
  <2>5. Service!Of(c, i, Service!AllTasks) \subseteq Spawned'
    <3>1. /\ Service!Of(c, i, Service!SocketTasks) \subseteq Spawned
          /\ Service!Of(c, i, {"STUN candidate gathering"}) \subseteq Spawned
      BY <1>2, <1>3, <1>8, Zenon DEF SetUp
    <3> SUFFICES ASSUME NEW name \in Service!AllTasks
                 PROVE  <<c, i, name>> \in Spawned'
      BY DEF Service!Of
    <3>2. CASE name \in Service!SocketTasks
      BY <2>4, <3>1, <3>2, Zenon DEF Service!Of
    <3>3. CASE name = "STUN candidate gathering"
      BY <2>4, <3>1, <3>3, Zenon DEF Service!Of
    <3>4. CASE name \in rest
      BY <2>4, <3>4 DEF Service!Of
    <3> QED
      BY <3>2, <3>3, <3>4, Zenon DEF Service!AllTasks
  <2>6. SetUp(c)'
    <3>1. ASSUME NEW j \in 1..n, j < i + 1
          PROVE  Service!Of(c, j, Service!AllTasks) \subseteq Spawned'
      <4>1. j < i \/ j = i
        BY <1>3, <3>1
      <4> QED
        BY <1>2, <2>4, <2>5, <4>1, Zenon DEF SetUp
    <3> QED
      BY <1>3, <2>3, <3>1 DEF SetUp
  <2>7. alive' \subseteq Task
    BY <1>2, <1>4, <2>1, Zenon DEF Service!AllTasks
  <2> QED
    BY <1>1, <1>2, <2>1, <2>2, <2>6, <2>7, OneMoves, ZenonT(60)
<1> QED
  <2>1. CASE Service!OpenSocket(c)
    BY <1>5, <1>6, <2>1, Zenon DEF Service!OpenSocket, Service!AtStep
  <2>2. CASE Service!StartGathering(c)
    BY <1>7, <2>2, Zenon DEF Service!StartGathering, Service!AtStep
  <2>3. CASE Service!BindLoopback(c)
    BY <1>5, <1>8, <2>3, Zenon DEF Service!BindLoopback, Service!AtStep
  <2> QED
    BY <2>1, <2>2, <2>3 DEF Service!Setup

\* run returns the failure the channel holds.
LEMMA NoticeStep ==
  ASSUME RunInv, Service!NoticeFailure
  PROVE  RunInv'
<1>1. /\ changed /\ changed' = FALSE /\ run_pc' = "returned" /\ result' = <<"task", failure>>
      /\ UNCHANGED <<command, alive, ended, failure, reports>>
  BY DEF Service!NoticeFailure, Service!Return
<1>2. result'[2] = failure
  BY <1>1
<1>3. Reason'
  BY <1>1, <1>2 DEF RunInv, Reason
<1>4. RunTypes' /\ Progress'
  BY <1>1, Zenon DEF RunInv, RunTypes, Progress
<1> QED
  BY <1>3, <1>4 DEF RunInv

\* A task ends, or reports.
LEMMA TaskSteps ==
  ASSUME RunInv, Service!TaskEnds \/ Service!TaskReports
  PROVE  RunInv'
<1>1. run_pc # "returned" /\ UNCHANGED <<command, run_pc, result, setups>>
  BY DEF Service!TaskEnds, Service!TaskReports
<1>2. /\ alive' \in SUBSET Task /\ ended' \in SUBSET Task /\ reports' \in Seq(Task)
      /\ Spawned' = Spawned /\ Reason'
  <2>1. alive \in SUBSET Task /\ ended \in SUBSET Task /\ reports \in Seq(Task)
    BY Zenon DEF RunInv, RunTypes
  <2>2. CASE Service!TaskEnds
    <3>1. PICK task \in alive : alive' = alive \ {task} /\ ended' = ended \cup {task}
      BY <2>2 DEF Service!TaskEnds
    <3>2. UNCHANGED <<failure, changed, reports>>
      BY <2>2 DEF Service!TaskEnds
    <3>3. Reason'
      BY <1>1, <3>2 DEF RunInv, Reason
    <3>4. Spawned' = Spawned
      BY <3>1, <3>2 DEF Spawned
    <3> QED
      BY <2>1, <3>1, <3>2, <3>3, <3>4
  <2>3. CASE Service!TaskReports
    <3>1. PICK task \in ended : /\ ended' = ended \ {task} /\ Service!ReportFailure(task)
                                /\ reports' = Append(reports, task)
      BY <2>3 DEF Service!TaskReports
    <3>2. UNCHANGED alive
      BY <2>3 DEF Service!TaskReports
    <3>3. /\ reports' \in Seq(Task) /\ reports' # <<>>
          /\ Service!ToSet(reports') = Service!ToSet(reports) \cup {task}
          /\ reports'[1] = IF reports = <<>> THEN task ELSE reports[1]
      BY <2>1, <3>1, Appended
    <3>4. Spawned' = Spawned
      BY <3>1, <3>2, <3>3 DEF Spawned
    <3>5. failure' = <<reports'[1]>>
      <4>1. failure = IF reports = <<>> THEN <<>> ELSE <<reports[1]>>
        BY DEF RunInv, Reason
      <4>2. CASE reports = <<>>
        BY <3>1, <3>3, <4>1, <4>2 DEF Service!ReportFailure
      <4>3. CASE reports # <<>>
        <5>1. failure # <<>>
          BY <4>1, <4>3
        <5> QED
          BY <3>1, <3>3, <4>1, <4>3, <5>1 DEF Service!ReportFailure
      <4> QED
        BY <4>2, <4>3
    <3>6. Reason'
      BY <1>1, <3>3, <3>5 DEF Reason
    <3> QED
      BY <2>1, <3>1, <3>2, <3>3, <3>4, <3>6
  <2> QED
    BY <2>2, <2>3
<1>3. Service!Connection' = Service!Connection
  BY <1>1 DEF Service!Connection
<1>4. RunTypes'
  BY <1>1, <1>2, <1>3, Zenon DEF RunInv, RunTypes
<1>5. Progress'
  <2>1. ASSUME NEW c \in Service!Connection, SetUp(c)
        PROVE  SetUp(c)'
    BY <1>1, <1>2, <2>1, StillSetUp
  <2> QED
    BY <1>1, <1>3, <2>1 DEF RunInv, Progress, Service!PeersOf
<1> QED
  BY <1>2, <1>4, <1>5 DEF RunInv

\* For Least only.
WF == INSTANCE WellFoundedInduction

\* A set of numbers that is not empty has a least one.
LEMMA Least ==
  ASSUME NEW S \in SUBSET Nat, S # {}
  PROVE  \E n \in S : \A m \in S : n <= m
<1>1. PICK n \in S : \A m \in S : ~(<<m, n>> \in WF!OpToRel(<, Nat))
  BY WF!NatLessThanWellFounded, WF!WFMin, Zenon
<1>2. ASSUME NEW k \in Nat, NEW l \in Nat, k < l
      PROVE  <<k, l>> \in WF!OpToRel(<, Nat)
  BY <1>2 DEF WF!OpToRel
<1>3. ASSUME NEW m \in S
      PROVE  n <= m
  <2>1. ~(m < n)
    BY <1>1, <1>2, Zenon
  <2> QED
    BY <2>1
<1> QED
  BY <1>3

\* When no connection is the first with an error, none has one.
LEMMA FirstError ==
  ASSUME RunTypes, ~\E c \in Service!Connection : Service!SetupErrors(c)
  PROVE  \A c \in Service!Connection : setups[c].error = <<>>
<1> DEFINE bad == {c \in Service!Connection : setups[c].error # <<>>}
<1> SUFFICES ASSUME bad # {} PROVE FALSE
  OBVIOUS
<1>1. \A c \in Service!Connection : c \in Nat /\ Service!Connection = 1..Len(command.connections)
  BY Numbered
<1>2. PICK c \in bad : \A d \in bad : c <= d
  BY <1>1, Least, Zenon
<1>3. c \in 1..Len(command.connections) /\ Service!Connection = 1..Len(command.connections)
  BY <1>1
<1>4. ASSUME NEW d \in 1..(c - 1)
      PROVE  setups[d].error = <<>>
  <2>1. d \in 1..Len(command.connections) /\ ~(c <= d)
    BY <1>3
  <2> QED
    BY <1>2, <1>3, <2>1
<1>5. Service!SetupErrors(c)
  BY <1>4 DEF Service!SetupErrors
<1> QED
  BY <1>5

\* join_all is done, with or without an error.
LEMMA SetupsDoneStep ==
  ASSUME RunInv, Service!SetupsDone
  PROVE  RunInv'
<1>1. /\ run_pc = "setup" /\ \A c \in Service!Connection : Service!Finished(c)
      /\ UNCHANGED <<command, setups, alive, ended, failure, reports, changed>>
  BY DEF Service!SetupsDone, Service!SeenAtSupervise
<1>2. CASE \E c \in Service!Connection : Service!SetupErrors(c)
  <2>1. run_pc' = "returned" /\ result'[1] = "setup"
    BY <1>2 DEF Service!SetupsDone, Service!Return
  <2>2. RunTypes' /\ Progress'
    BY <1>1, <2>1 DEF RunInv, RunTypes, Progress
  <2>3. Reason'
    BY <1>1, <2>1 DEF RunInv, Reason
  <2> QED
    BY <2>2, <2>3 DEF RunInv
<1>3. CASE ~\E c \in Service!Connection : Service!SetupErrors(c)
  <2>1. run_pc' = "supervise"
    BY <1>3 DEF Service!SetupsDone
  <2>2. \A c \in Service!Connection : setups[c].error = <<>>
    BY <1>3, FirstError DEF RunInv
  <2>3. \A c \in Service!Connection : setups[c].peer > Len(Service!PeersOf(c))
    BY <1>1, <2>2 DEF Service!Finished
  <2>4. Service!Connection' = Service!Connection
    BY <1>1 DEF Service!Connection
  <2>5. RunTypes'
    BY <1>1, <2>1, <2>4 DEF RunInv, RunTypes
  <2>6. \A c \in Service!Connection : SetUp(c)'
    <3>1. Spawned' = Spawned
      BY <1>1 DEF Spawned
    <3> QED
      BY <1>1, <3>1, StillSetUp DEF RunInv, Progress
  <2>7. Progress'
    BY <1>1, <2>1, <2>3, <2>4, <2>6 DEF Progress, Service!PeersOf
  <2>8. Reason'
    BY <1>1, <2>1 DEF RunInv, Reason
  <2> QED
    BY <2>5, <2>7, <2>8 DEF RunInv
<1> QED
  BY <1>2, <1>3

\* Every step of the program keeps RunInv.
LEMMA RunStep == RunInv /\ [AppNext]_<<vars, runVars>> => RunInv'
<1> SUFFICES ASSUME RunInv, [AppNext]_<<vars, runVars>> PROVE RunInv'
  OBVIOUS
<1>1. CASE UNCHANGED runVars
  <2>1. UNCHANGED <<command, run_pc, result, setups, alive, ended, failure, changed, reports>>
    BY <1>1 DEF runVars
  <2>2. Service!Connection' = Service!Connection /\ Spawned' = Spawned
    BY <2>1 DEF Service!Connection, Spawned
  <2>3. RunTypes'
    BY <2>1, <2>2, Zenon DEF RunInv, RunTypes
  <2>4. ASSUME NEW c \in Service!Connection, SetUp(c)
        PROVE  SetUp(c)'
    BY <2>1, <2>2, <2>4, StillSetUp
  <2>5. Progress'
    BY <2>1, <2>2, <2>4 DEF RunInv, Progress, Service!PeersOf
  <2>6. Reason'
    BY <2>1 DEF RunInv, Reason
  <2> QED
    BY <2>3, <2>5, <2>6 DEF RunInv
<1>2. CASE Service!Next
  <2>1. CASE Service!Validate \/ Service!StartDht
    BY <2>1, EarlySteps
  <2>2. CASE Service!SetupsDone
    BY <2>2, SetupsDoneStep
  <2>3. CASE Service!NoticeFailure
    BY <2>3, NoticeStep
  <2>4. CASE \E c \in Service!Connection : Service!Setup(c)
    BY <2>4, SetupSteps
  <2>5. CASE Service!TaskEnds \/ Service!TaskReports
    BY <2>5, TaskSteps
  <2> QED
    BY <1>2, <2>1, <2>2, <2>3, <2>4, <2>5 DEF Service!Next, Service!Setup
<1> QED
  BY <1>1, <1>2 DEF AppNext

\* RunInv holds throughout.
LEMMA RunInvariant == AppSpec => []RunInv
  BY InitRun, RunStep, PTL DEF AppSpec

\* run supervises only when every task of every peer was started, for any number
\* of connections and peers and with tasks failing at any time (run and
\* setup_connection, service.rs).
THEOREM NeverHalfStarted == AppSpec => []NoHalfStart
<1>1. RunInv => NoHalfStart
  <2> SUFFICES ASSUME RunInv, run_pc = "supervise", NEW c \in Service!Connection,
                      NEW i \in DOMAIN Service!PeersOf(c)
               PROVE  Service!Of(c, i, Service!AllTasks) \subseteq Spawned
    BY DEF NoHalfStart, Service!NoHalfStart, Spawned
  <2>1. i \in 1..Len(Service!PeersOf(c)) /\ Len(Service!PeersOf(c)) \in Nat
    BY Numbered DEF RunInv
  <2>2. setups[c].peer \in Nat
    BY Zenon DEF RunInv, RunTypes, SetupState
  <2>3. i < setups[c].peer
    BY <2>1, <2>2 DEF RunInv, Progress
  <2> QED
    BY <2>1, <2>3, Zenon DEF RunInv, Progress, SetUp
<1> QED
  BY <1>1, RunInvariant, PTL

\* The error run ends with is the first failure any task reported, whenever
\* tasks end and in whatever order they report (report_failure and spawn,
\* utils.rs).
THEOREM FirstReportIsAlwaysTheReason == AppSpec => []FirstReportIsTheReason
<1>1. RunInv => FirstReportIsTheReason
  <2> SUFFICES ASSUME RunInv
               PROVE  /\ failure # <<>> => failure[1] = reports[1]
                      /\ run_pc = "returned" /\ result[1] = "task" => result[2] = <<reports[1]>>
    BY DEF FirstReportIsTheReason, Service!FirstReportIsTheReason
  <2>1. ASSUME failure # <<>> PROVE failure[1] = reports[1]
    <3>1. failure = <<reports[1]>>
      BY <2>1 DEF RunInv, Reason
    <3> QED
      BY <3>1
  <2> QED
    BY <2>1 DEF RunInv, Reason
<1> QED
  BY <1>1, RunInvariant, PTL
=============================================================================
