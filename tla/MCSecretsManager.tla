-------------------------- MODULE MCSecretsManager --------------------------
(***************************************************************************)
(* Instances of SecretsManager for TLC: the environments of the process    *)
(* that the runs use.                                                      *)
(***************************************************************************)
EXTENDS SecretsManager

CONSTANTS keyPath, hashPath, passPath, v1

NoEnv == [keyFile |-> NoPath, key |-> Empty, hashFile |-> NoPath,
          pwFile |-> NoPath, hash |-> Empty, pw |-> Empty]

(* One file: the handshake key has it, and the password is a literal. *)
EnvKeyFile == [NoEnv EXCEPT !.keyFile = keyPath, !.pw = v1]

(* Key and password both in configured files, as setup_ncm.sh leaves them. *)
EnvTwoFiles == [NoEnv EXCEPT !.keyFile = keyPath, !.pwFile = passPath]

(* The key in a configured file, the password wherever the default paths   *)
(* have it.                                                                *)
EnvDefaults == [NoEnv EXCEPT !.keyFile = keyPath]

InPlace == [p \in Paths |-> {"inplace"}]

(* The key file is edited atomically, the password files in any way. *)
AnyButKey == [p \in Paths |->
    IF p = keyPath THEN {"replace", "remove", "moveaway"} ELSE AllEditKinds]
=============================================================================
