-------------------------------- MODULE MCCore --------------------------------
(***************************************************************************)
(* Components that share nothing, side by side for TLC: packages, their    *)
(* stuffing and their documents, devices, passwords, walks through         *)
(* directories, the ssh session, the pool, the watcher, the error cell and *)
(* a UDP server.  Each behaviour moves one of them.                        *)
(***************************************************************************)
EXTENDS Documents, Devices, PasswdGenerator, FilesAction, SshTools,
        SharedPool, InotifyManager, AsioError, AsioUDPServer, TLC

VARIABLE unit   \* the component that moves

coreVars ==
  <<unit, pkgVars, docVars, devVars, passwdVars, filesVars, sshVars, poolVars, inotifyVars,
    errorVars, udpVars>>

\* Devices without a property, with a plain one, with an empty value, with a sign
\* of equality inside a value, and with one at the end of a value.
MCContents ==
  { NoFunction, 107 :> <<118>>, 107 :> <<118>> @@ 108 :> <<>>,
    107 :> <<118, 61, 118>> @@ 108 :> <<118, 61>> }

\* A letter and a blank: documents of both hold words and blanks before and behind.
MCTexts == { <<65>>, <<10>> }

\* A directory whose name begins with a blank, under the name without the blank, with
\* one in it whose name the blanks of two conversions make; an ordinary directory; a
\* path that ends in an asterisk; files, one of them excluded.
Top1 == [blanks |-> 1, parts |-> <<"top">>]
Sub3 == [blanks |-> 3, parts |-> <<"top", "sub">>]
Plain(parts) == [blanks |-> 0, parts |-> parts]

MCLists == { { Plain(<<"top">>), Plain(<<"dir", "*">>) }, { Plain(<<"dir">>) } }

MCDirectories == {Top1, Sub3, Plain(<<"dir">>)}

MCEntries == Top1 :> {"hidden", "sub"} @@ Sub3 :> {"g"} @@ Plain(<<"dir">>) :> {"h"}

MCUnmatched == {[blanks |-> 3, parts |-> <<"top", "hidden">>]}

\* Two ordinary files, and an ordinary directory.
MCFileList == { { Plain(<<"", "e">>), Plain(<<"", "f">>) } }
MCDirectoryList == { { Plain(<<"", "dir">>) } }
MCDirectory == { Plain(<<"", "dir">>) }
MCNoEntries == [d \in {} |-> {}]
MCDirectoryEntries == Plain(<<"", "dir">>) :> {"f"}

MCPaths == <<"a", "b">>

Units ==
  {"packages", "documents", "devices", "passwords", "files", "ssh", "pool", "inotify", "errors",
   "udp"}

Init ==
  /\ unit \in Units
  /\ PkgInit /\ DocInit /\ DevInit /\ PasswdInit /\ FilesInit /\ SshInit
  /\ PoolInit /\ InotifyInit /\ ErrorInit /\ UdpInit
  \* the pool b has an allocator in one of two initial states, where pools move
  /\ \A p \in Pools : allocator[p] => unit = "pool" /\ p = "b"

Next ==
  /\ UNCHANGED unit
  /\ IF unit = "packages"  THEN PkgNext     ELSE UNCHANGED pkgVars
  /\ IF unit = "documents" THEN DocNext     ELSE UNCHANGED docVars
  /\ IF unit = "devices"   THEN DevNext     ELSE UNCHANGED devVars
  /\ IF unit = "passwords" THEN PasswdNext  ELSE UNCHANGED passwdVars
  /\ IF unit = "files"     THEN FilesNext   ELSE UNCHANGED filesVars
  /\ IF unit = "ssh"       THEN SshNext     ELSE UNCHANGED sshVars
  /\ IF unit = "pool"      THEN PoolNext    ELSE UNCHANGED poolVars
  /\ IF unit = "inotify"   THEN InotifyNext ELSE UNCHANGED inotifyVars
  /\ IF unit = "errors"    THEN ErrorNext   ELSE UNCHANGED errorVars
  /\ IF unit = "udp"       THEN UdpNext     ELSE UNCHANGED udpVars

\* What the fairness asks for is never enabled while another component moves.
Spec == Init /\ [][Next]_coreVars /\ PasswdFairness
=============================================================================
