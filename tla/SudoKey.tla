------------------------------ MODULE SudoKey -------------------------------
(***************************************************************************)
(* The signing key of admin set-quota (src/src/ops/signer.rs).  A key is   *)
(* known by its account: "sudo", another one, or none ("error").  A SURI   *)
(* is the key it derives; an option is a sequence of at most one element;  *)
(* a file that cannot be read is given, and empty of contents: <<<<>>>>.   *)
(***************************************************************************)
EXTENDS Sequences, SequencesExt

Key == {"sudo", "other", "error"}

Option(S) == {<<>>} \cup {<<x>> : x \in S}

\* keypair_from_suri
KeypairFromSuri(suri) == suri

\* keypair_from_keystore_contents: what starts with a quote must be a JSON
\* string, and anything else is a SURI itself.
KeypairFromKeystoreContents(contents) ==
  IF contents.quoted /\ ~contents.json THEN "error"
  ELSE KeypairFromSuri(contents.suri)

\* keypair_from_pjs_json: a backup is the key and the password it is under.
KeypairFromPjsJson(backup, password) ==
  IF backup.password = password THEN backup.key ELSE "error"

StripSuffix(text, char) ==
  IF text # <<>> /\ Last(text) = char THEN Front(text) ELSE text

\* The contents of a password file, less what an editor adds at the end.
StripNewline(text) == StripSuffix(StripSuffix(text, "\n"), "\r")

\* resolve_password: an inline or environment password goes before the file,
\* the file before the prompt, at which `typed` is entered.
ResolvePassword(args) ==
  IF args.password # <<>> THEN args.password
  ELSE IF args.passwordFile # <<>>
       THEN IF args.passwordFile[1] = <<>> THEN <<>>
            ELSE <<StripNewline(args.passwordFile[1][1])>>
  ELSE IF args.passwordInteractive THEN args.typed ELSE <<>>

\* The ways to give the key (clap admits one source) and the password.
Right == <<"p">>
Wrong == <<"q">>
Suri == {"sudo", "other", "error"}
Passwords ==
  [password : Option({Right, Wrong}),
   passwordFile : Option(Option({Right \o <<"\n">>, Right \o <<"\r", "\n">>, Wrong})),
   passwordInteractive : BOOLEAN,
   typed : Option({Right, Wrong})]
NoPassword ==
  [password |-> <<>>, passwordFile |-> <<>>, passwordInteractive |-> FALSE,
   typed |-> <<>>]
SudoKeyArgs ==
  [seed : {<<s>> : s \in Suri}, seedFile : {<<>>}, json : {<<>>},
   passwords : {NoPassword}]
  \cup
  [seed : {<<>>},
   seedFile : {<<f>> : f \in Option([quoted : BOOLEAN, json : BOOLEAN, suri : Suri])},
   json : {<<>>}, passwords : {NoPassword}]
  \cup
  [seed : {<<>>}, seedFile : {<<>>},
   json : {<<f>> : f \in Option([key : {"sudo", "other"}, password : {Right}])},
   passwords : Passwords]

\* resolve_sudo_keypair: the backup is read before the password is asked for.
ResolveSudoKeypair(args) ==
  LET password == ResolvePassword(args.passwords)
  IN  IF args.seed # <<>> THEN KeypairFromSuri(args.seed[1])
      ELSE IF args.seedFile # <<>>
           THEN IF args.seedFile[1] = <<>> THEN "error"
                ELSE KeypairFromKeystoreContents(args.seedFile[1][1])
      ELSE IF args.json[1] = <<>> \/ password = <<>> THEN "error"
      ELSE KeypairFromPjsJson(args.json[1][1], password[1])

\* Properties, checked where the module is used.

EndsIn(text, chars) == text # <<>> /\ Last(text) \in chars

\* "Strip a single trailing newline (CRLF or LF) added by editors; keep any other
\* characters verbatim": after a word, one newline goes and nothing else does.  A
\* CR of its own is one too, against this comment.  Every text is of one of these
\* forms.
LosesOneNewline(word) ==
  /\ ~EndsIn(word, {"\n", "\r"}) => StripNewline(word) = word
  /\ ~EndsIn(word, {"\r"}) => StripNewline(word \o <<"\n">>) = word
  /\ StripNewline(word \o <<"\r", "\n">>) = word
  /\ StripNewline(word \o <<"\r">>) = word

NewlinesStripped(Chars, n) ==
  \A k \in 0 .. n : \A word \in [1 .. k -> Chars] : LosesOneNewline(word)
=============================================================================
