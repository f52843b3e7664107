------------------------------- MODULE Keygen -------------------------------
(***************************************************************************)
(* The generate command (keygen.rs): the two key files it opens and then   *)
(* writes, when any step may fail, when files or symbolic links are in the *)
(* way, and when two commands run at once.  A key is named by the command  *)
(* that drew it.                                                           *)
(***************************************************************************)
EXTENDS Integers, Sequences

CONSTANTS
  Command,          \* the processes that run generate
  Path,             \* file names
  None,             \* Option::None
  PubOf             \* path + ".pub", for the paths used for private keys

ASSUME KeygenAssumption ==
  /\ None \notin Path
  /\ DOMAIN PubOf \subseteq Path /\ PubOf \in [DOMAIN PubOf -> Path]

VARIABLES
  flags,            \* GenFlags of each command
  files,            \* [kind, content, wide] of each path; a link's are its target's
  pc                \* the step each command is at

vars == <<flags, files, pc>>

GenFlags == [path : DOMAIN PubOf \cup {None}, pub_path : Path \cup {None},
             insecure_priv : BOOLEAN, override_files : BOOLEAN]

Old == <<"old">>

Init ==
  /\ flags \in [Command -> GenFlags]
  /\ files \in [Path -> {[kind |-> "absent", content |-> <<>>, wide |-> FALSE],
                         [kind |-> "file", content |-> Old, wide |-> TRUE],
                         [kind |-> "link", content |-> Old, wide |-> TRUE]}]
  /\ pc = [g \in Command |-> "open private"]

\* --pub-path, or the private path with ".pub" appended, or no file.
PublicPath(g) ==
  IF flags[g].pub_path # None THEN flags[g].pub_path
  ELSE IF flags[g].path # None THEN PubOf[flags[g].path] ELSE None

Goto(g, step) == pc' = [pc EXCEPT ![g] = step]

Fail(g) == Goto(g, "failed") /\ UNCHANGED files

\* Mutant: an existing file is opened and truncated in any case.
CanOpenAny(kind, override) == kind # "link"

\* Mutant: overriding follows a symbolic link.
CanOpenFollowing(kind, override) == override \/ kind = "absent"

\* configure_output_file: create_new, or truncate without following a link.
CanOpen(kind, override) == IF override THEN kind # "link" ELSE kind = "absent"

\* Opening a file for output: a new file has the mode asked for, an old one is
\* emptied and keeps its mode.
Open(g, path, wide) ==
  /\ CanOpen(files[path].kind, flags[g].override_files)
  /\ files' = [files EXCEPT ![path] =
       IF @.kind = "absent" THEN [kind |-> "file", content |-> <<>>, wide |-> wide]
       ELSE [@ EXCEPT !.content = <<>>]]

OpenPrivate(g) ==
  /\ pc[g] = "open private"
  /\ \/ /\ flags[g].path # None
        /\ \/ Open(g, flags[g].path, flags[g].insecure_priv) /\ Goto(g, "restrict")
           \/ Fail(g)
     \/ flags[g].path = None /\ Goto(g, "open public") /\ UNCHANGED files

\* Mutant: the mode given at creation is relied upon.
RestrictedByMode(g) == files[flags[g].path]

\* set_permissions of an opened private key file.
Restricted(g) ==
  [files[flags[g].path] EXCEPT !.wide = IF flags[g].insecure_priv THEN @ ELSE FALSE]

RestrictPrivate(g) ==
  /\ pc[g] = "restrict"
  /\ \/ files' = [files EXCEPT ![flags[g].path] = Restricted(g)] /\ Goto(g, "open public")
     \/ ~flags[g].insecure_priv /\ Fail(g)

OpenPublic(g) ==
  /\ pc[g] = "open public"
  /\ \/ /\ PublicPath(g) # None
        /\ Open(g, PublicPath(g), TRUE) /\ Goto(g, "write private")
     \/ PublicPath(g) # None /\ Fail(g)
     \/ PublicPath(g) = None /\ Goto(g, "write private") /\ UNCHANGED files

\* write_all to an open file or, without one, to stdout; it may fail half-way.
Write(g, path, key, step) ==
  \/ /\ files' = IF path = None THEN files
                 ELSE [files EXCEPT ![path].content = <<key, g>>]
     /\ Goto(g, step)
  \/ /\ files' \in {files} \cup (IF path = None THEN {}
                     ELSE {[files EXCEPT ![path].content = <<key, g, "part">>]})
     /\ Goto(g, "failed")

WritePrivate(g) ==
  pc[g] = "write private" /\ Write(g, flags[g].path, "secret", "write public")

WritePublic(g) ==
  /\ pc[g] = "write public"
  /\ \/ PublicPath(g) # None /\ Write(g, PublicPath(g), "public", "done")
     \/ PublicPath(g) = None /\ Goto(g, "done") /\ UNCHANGED files

Next ==
  /\ \E g \in Command :
       \/ OpenPrivate(g) \/ RestrictPrivate(g) \/ OpenPublic(g)
       \/ WritePrivate(g) \/ WritePublic(g)
  /\ UNCHANGED flags

Spec == Init /\ [][Next]_vars

-----------------------------------------------------------------------------
Overrides == \E g \in Command : flags[g].override_files

\* A file that was there before keeps its content and its mode unless a command
\* may override it, and a link's target keeps them in any case (keygen.rs,
\* create_new and O_NOFOLLOW).
OldFilesKept ==
  [][\A p \in Path :
       files[p].kind = "link" \/ (files[p].content = Old /\ ~Overrides)
         => files'[p] = files[p]]_vars

\* A secret key, whole or in part, is never in a file that others may read,
\* unless a command was told --insecure-priv (keygen.rs, set_permissions before
\* the key is written, for a new file and for an old one).
SecretNotExposed ==
  \A p \in Path, g \in Command :
    /\ Len(files[p].content) > 1 /\ files[p].content[1] = "secret" /\ files[p].content[2] = g
    /\ ~flags[g].insecure_priv
    => ~files[p].wide

FilesOf(g) == {flags[g].path, PublicPath(g)} \ {None}

\* Two commands that share no file, or none of which overrides.
Apart(g, h) == \/ FilesOf(g) \cap FilesOf(h) = {}
               \/ ~flags[g].override_files /\ ~flags[h].override_files

\* What a command that succeeded has written is a pair of one secret and its
\* public key, whatever another command does around it.  The exceptions are
\* overriding: between two commands that share a file, or of a command's own
\* private key with --pub-path (keygen.rs, exclusive creation of both files).
SuccessLeavesPair ==
  \A g \in Command :
    /\ pc[g] = "done"
    /\ \A h \in Command \ {g} : Apart(g, h)
    /\ flags[g].path = None \/ flags[g].path # PublicPath(g)
    => /\ flags[g].path # None => files[flags[g].path].content = <<"secret", g>>
       /\ PublicPath(g) # None => files[PublicPath(g)].content = <<"public", g>>
=============================================================================
