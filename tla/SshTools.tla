------------------------------- MODULE SshTools -------------------------------
(***************************************************************************)
(* tools/core/ssh/src/SshTools.cpp: a session and a channel of libssh.     *)
(* Every call of the library may fail, and a failure disconnects in the    *)
(* middle of the operation, which goes on with what is left.               *)
(***************************************************************************)
EXTENDS Integers

VARIABLES
  ssh,        \* the object: see NewSsh
  written,    \* history: whether ssh_write_knownhost was called in the last operation
  answer,     \* history: what ssh_is_server_known answered in the last operation
  opened      \* history: whether the last Authenticate was let in by the host

sshVars == <<ssh, written, answer, opened>>

\* The codes of three enumerations of libssh come together in mErrorCode.
SSH_OK == 0
SSH_ERROR == -1
SSH_SERVER_NOT_KNOWN == 0
SSH_SERVER_KNOWN_OK == 1
SSH_SERVER_KNOWN_CHANGED == 2
SSH_SERVER_FOUND_OTHER == 3
SSH_SERVER_FILE_NOT_FOUND == 4
SSH_AUTH_SUCCESS == 0
SSH_AUTH_DENIED == 1
SSH_AUTH_PARTIAL == 2

\* mSession and mChannel as whether they are there, mConnected, mErrorCode; of the
\* attributes, whether mHost is empty and whether mPort is 0.
NewSsh == [session |-> FALSE, channel |-> FALSE, connected |-> FALSE, code |-> SSH_ERROR,
           host |-> FALSE, port |-> FALSE]

-----------------------------------------------------------------------------
IsError(s) == ~s.session \/ s.code \notin {SSH_OK, SSH_SERVER_KNOWN_OK, SSH_AUTH_SUCCESS}
IsReady(s) == s.session /\ s.channel
IsConnected(s) == s.session /\ s.connected
IsDataComplete(s) == s.session /\ s.host /\ s.port

\* A Disconnect that leaves the channel.
DisconnectKeepsChannel(s) ==
  [s EXCEPT !.session = FALSE, !.code = SSH_OK, !.connected = FALSE]

\* tryDisconnect: the channel goes with the session it belongs to.
Disconnect(s) ==
  [ session |-> FALSE, channel |-> s.channel /\ ~s.session, connected |-> FALSE,
    code |-> SSH_OK, host |-> s.host, port |-> s.port ]

SetErrorCode(s, code) ==
  LET t == [s EXCEPT !.code = code] IN IF IsError(t) THEN Disconnect(t) ELSE t

\* What a call of the library may answer: without a session always an error.
Answers(s, codes) == IF s.session THEN codes ELSE {SSH_ERROR}

\* ssh_options_set, followed by setErrorCode.
AfterOption(s) == { SetErrorCode(s, c) : c \in Answers(s, {SSH_OK, SSH_ERROR}) }

AfterHost(s, host) == AfterOption([s EXCEPT !.host = host])
AfterVerbosity(s) == AfterOption(s)
AfterPort(s, port) == AfterOption([s EXCEPT !.port = port])
AfterUser(s) == AfterOption(s)

-----------------------------------------------------------------------------
NoHistory == written' = FALSE /\ answer' = SSH_OK /\ UNCHANGED opened

SshInit == ssh = NewSsh /\ written = FALSE /\ answer = SSH_OK /\ opened = FALSE

SetHost == \E host \in BOOLEAN : ssh' \in AfterHost(ssh, host) /\ NoHistory
SetPort == \E port \in BOOLEAN : ssh' \in AfterPort(ssh, port) /\ NoHistory
SetUser == ssh' \in AfterUser(ssh) /\ NoHistory
SetVerbosity == ssh' \in AfterVerbosity(ssh) /\ NoHistory
TryDisconnect == ssh' = Disconnect(ssh) /\ NoHistory

\* tryConnect: a new session, three options, mConnected, and only then ssh_connect,
\* whatever has failed on the way.
TryConnect(host, port) ==
  /\ \E s \in AfterHost([Disconnect(ssh) EXCEPT !.session = TRUE], host) :
     \E t \in AfterVerbosity(s) :
     \E u \in AfterPort(t, port) :
     \E c \in Answers(u, {SSH_OK, SSH_ERROR}) :
       ssh' = SetErrorCode([u EXCEPT !.connected = TRUE], c)
  /\ opened' = FALSE /\ written' = FALSE /\ answer' = SSH_OK

\* VerifyKnownHost: the answer about the host, the hash of its key, and for a host
\* that is not known its entry in the file.
VerifyKnownHost ==
  /\ IsConnected(ssh)
  /\ \E c \in {SSH_ERROR} \cup SSH_SERVER_NOT_KNOWN .. SSH_SERVER_FILE_NOT_FOUND :
     \E hashed \in BOOLEAN :
       LET s == SetErrorCode(ssh, c)
           writes == ~IsError(s) /\ hashed /\
                     s.code \in {SSH_SERVER_FILE_NOT_FOUND, SSH_SERVER_NOT_KNOWN}
       IN  /\ answer' = c
           /\ written' = writes
           /\ \/ IsError(s) /\ ssh' = s
              \/ ~IsError(s) /\ ~hashed /\ ssh' = SetErrorCode(s, SSH_ERROR)
              \/ writes /\ \E w \in {SSH_OK, SSH_ERROR} : ssh' = SetErrorCode(s, w)
              \/ ~IsError(s) /\ hashed /\ ~writes /\ ssh' = s
  /\ UNCHANGED opened

\* Authenticate: the user, a new channel, the password, and the opening of the
\* channel.  A host opens channels only for those it has let in.
Authenticate ==
  /\ IsDataComplete(ssh) /\ IsConnected(ssh)
  /\ \E s \in AfterUser(ssh) :
     \E a \in Answers(s, {SSH_ERROR, SSH_AUTH_SUCCESS, SSH_AUTH_DENIED, SSH_AUTH_PARTIAL}) :
     LET t == SetErrorCode([s EXCEPT !.channel = s.session], a) IN
       /\ opened' = (s.session /\ a = SSH_AUTH_SUCCESS)
       /\ IF IsError(t) THEN ssh' = t
          ELSE \E o \in {SSH_ERROR} \cup (IF a = SSH_AUTH_SUCCESS THEN {SSH_OK} ELSE {}) :
                 ssh' = SetErrorCode(t, o)
  /\ written' = FALSE /\ answer' = SSH_OK

SshNext ==
  \/ SetHost \/ SetPort \/ SetUser \/ SetVerbosity \/ TryDisconnect
  \/ (\E host, port \in BOOLEAN : TryConnect(host, port))
  \/ VerifyKnownHost \/ Authenticate

SshSpec == SshInit /\ [][SshNext]_sshVars

-----------------------------------------------------------------------------
(* Properties.                                                             *)

\* Nothing outlives the session: after every operation, its failures in the middle
\* included, a channel and the mark of a connection belong to a session
\* (setErrorCode, tryDisconnect, tryConnect).
NothingOutlivesSession == ssh.channel \/ ssh.connected => ssh.session

\* A session that is there after an operation that talked to the library has not
\* failed: an error always ends in a disconnect (setErrorCode).
SessionHasNoError == ssh.session => ~IsError(ssh)

\* A channel is open only if the host let the user in, though a refused password
\* has the code of a known host and is not taken for an error (Authenticate, isError).
ChannelNeedsLogin == IsReady(ssh) => opened

\* The file of known hosts is written only for a host nothing was known about, and
\* a host whose key has changed is left (VerifyKnownHost).
OnlyUnknownHostWritten ==
  /\ written => answer = SSH_SERVER_NOT_KNOWN
  /\ answer \in {SSH_SERVER_KNOWN_CHANGED, SSH_SERVER_FOUND_OTHER} => ~ssh.session

\* Whatever fails on the way, what is left is a session without an error, and a
\* channel only for a user whom the host let in; the file of known hosts is written
\* only for a host nothing was known about, and a host with another key than the known
\* one is left (setErrorCode, tryConnect, Authenticate, VerifyKnownHost).
SessionIsSound ==
  NothingOutlivesSession /\ SessionHasNoError /\ ChannelNeedsLogin /\ OnlyUnknownHostWritten
=============================================================================
