------------------------------ MODULE TlsSecurity ------------------------------
(***************************************************************************)
(* make_server_tls_context, which TlsTunnelServer::reload_tls_context      *)
(* calls while the operator replaces the credential files one by one.      *)
(* Every file is read at a time of its own; a file is replaced at once, by *)
(* a rename, and one that is open keeps what it had.                       *)
(***************************************************************************)
EXTENDS Naturals

VARIABLES
    files,          \* the versions of certificate chain and key, and whether
                    \* the key is a regular file that only its owner may read
    loading,        \* the context that is being made, and its next step
    tls_context_    \* the context that new sessions get

credentials == <<files, loading, tls_context_>>

Old == [chain |-> 1, key |-> 1, private |-> TRUE]
New == [chain |-> 2, key |-> 2, private |-> TRUE]

NotLoading == [step |-> "none", chain |-> 0, key |-> 0]
Loading == loading # NotLoading

CredentialsInit ==
    /\ files = Old
    /\ loading = NotLoading
    /\ tls_context_ = [chain |-> Old.chain, key |-> Old.key]

(* The operator installs a new chain, a new key, or corrects the           *)
(* permissions of the key.                                                 *)
InstallChain ==
    /\ files.chain = 1
    /\ files' = [files EXCEPT !.chain = 2]
    /\ UNCHANGED <<loading, tls_context_>>

InstallKey(private) ==
    /\ files.key = 1
    /\ files' = [files EXCEPT !.key = 2, !.private = private]
    /\ UNCHANGED <<loading, tls_context_>>

Protect ==
    /\ ~files.private
    /\ files' = [files EXCEPT !.private = TRUE]
    /\ UNCHANGED <<loading, tls_context_>>
-------------------------------------------------------------------------------
Fail == loading' = NotLoading /\ UNCHANGED <<files, tls_context_>>

(* The checks of the key alone.                                            *)
validate_server_private_key_permissions ==
    /\ ~Loading
    /\ IF files.private
       THEN loading' = [NotLoading EXCEPT !.step = "chain"] /\ UNCHANGED <<files, tls_context_>>
       ELSE Fail

use_certificate_chain_file ==
    /\ loading.step = "chain"
    /\ loading' = [loading EXCEPT !.chain = files.chain, !.step = "key"]
    /\ UNCHANGED <<files, tls_context_>>

(* The key is checked again and read through the same descriptor.          *)
use_private_key ==
    /\ loading' = [loading EXCEPT !.key = files.key, !.step = "trust"]
    /\ UNCHANGED <<files, tls_context_>>

open_validated_server_private_key ==
    /\ loading.step = "key"
    /\ IF files.private THEN use_private_key ELSE Fail

\* Mutant: the key is not compared with the certificate.
FinishUnchecked(readable) ==
    /\ loading.step = "trust"
    /\ files = New => readable
    /\ IF readable
       THEN /\ tls_context_' = [chain |-> loading.chain, key |-> loading.key]
            /\ loading' = NotLoading /\ UNCHANGED files
       ELSE Fail

(* The CA and the CRL, and the comparison of key and certificate.  Only    *)
(* then is the context replaced.  `readable`: everything the context needs *)
(* could be read, which may fail until the whole set is installed.         *)
FinishContext(readable) ==
    /\ loading.step = "trust"
    /\ files = New => readable
    /\ IF readable /\ loading.chain = loading.key
       THEN /\ tls_context_' = [chain |-> loading.chain, key |-> loading.key]
            /\ loading' = NotLoading /\ UNCHANGED files
       ELSE Fail
-------------------------------------------------------------------------------
(* At no time do new sessions get a context whose key belongs to another   *)
(* certificate, whichever of the two files a reload met first.             *)
ContextMatches == tls_context_.chain = tls_context_.key
===============================================================================
