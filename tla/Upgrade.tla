------------------------------ MODULE Upgrade ------------------------------
(***************************************************************************)
(* src/common/upgrade.c: a firmware image is downloaded over HTTP into a   *)
(* flash slot, checked against a hash if the caller gave one, read back    *)
(* and compared, and only then is the slot selected for the next boot.     *)
(* Each step may fail, and the power may fail between any two.             *)
(*                                                                         *)
(* The image is handled in chunks.  What matters of a chunk is whether it  *)
(* is the one the hash was made from, and whether the flash took it.       *)
(***************************************************************************)
EXTENDS Naturals, Sequences, FiniteSets

CONSTANTS
    ImageSize,      \* chunks of the image the hash was made from
    SlotSize,       \* chunks the flash slot holds
    MaxSize         \* MAX_FIRMWARE_IMAGE_SIZE in chunks

ASSUME UpgradeConstants ==
    /\ ImageSize \in Nat \ {0} /\ SlotSize \in Nat /\ MaxSize \in Nat

VARIABLES
    stage,          \* where a_upgrade_try stands
    args,           \* its arguments
    held,           \* sockets, contexts, buffers and handles it has acquired
    len,            \* Content-Length
    received,       \* the chunks that were read
    result,         \* what the last call returned
    slot,           \* the chunks in flash
    boot,           \* what the board boots next
    chosen          \* what was received and with which hash when the slot was
                    \* selected: at most one, and none once it was erased

callVars == <<stage, args, held, len, received, result>>
flashVars == <<slot, boot, chosen>>
upgradeVars == <<callVars, flashVars>>

\* path says whether it is not NULL.
Args == [use_tls : BOOLEAN, path : BOOLEAN, md5 : {"none", "given", "malformed"},
         no_reboot : BOOLEAN]
Chunk == {"right", "wrong"}
Image == [i \in 1 .. ImageSize |-> "right"]
Nothing == "nothing"

UpgradeInit ==
    /\ stage = "idle"
    /\ args \in [use_tls : {FALSE}, path : {TRUE}, md5 : {"none"}, no_reboot : {FALSE}]
    /\ held = {} /\ len = 0 /\ received = <<>> /\ result = Nothing
    /\ slot = <<>> /\ boot = "current" /\ chosen = {}

-----------------------------------------------------------------------------
(* The error labels, with what is released from each of them on.           *)

return_error == {"buf"}
return_error_with_socket == return_error \cup {"socket", "tls"}
return_error_with_stream == return_error_with_socket \cup {"stream"}
return_error_with_sflash == return_error_with_stream \cup {"app"}

GoTo(label, ota_result) ==
    /\ held' = held \ label
    /\ result' = ota_result
    /\ stage' = "idle"

\* Most steps acquire something and go on, or fail.
Attempt(from, to, acquired, label, ota_result) ==
    /\ stage = from
    /\ \/ /\ stage' = to
          /\ held' = held \cup acquired
          /\ UNCHANGED result
       \/ GoTo(label, ota_result)
    /\ UNCHANGED <<args, len, received, flashVars>>

\* WICED_FALSE, which is returned when the network is down, is OTA_SUCCESS: both
\* are 0.
a_upgrade_try(a) ==
    /\ stage = "idle"
    /\ args' = a
    /\ held' = {} /\ len' = 0 /\ received' = <<>>
    /\ \/ stage' = "lookup" /\ result' = Nothing
       \/ stage' = "idle" /\ result' = "OTA_SUCCESS"
    /\ UNCHANGED flashVars

hostname_lookup ==
    Attempt("lookup", "socket", {}, return_error, "OTA_FAIL_TO_LOOKUP_HOSTNAME")

create_socket ==
    Attempt("socket", "connect", {"socket"} \cup (IF args.use_tls THEN {"tls"} ELSE {}),
            return_error, "OTA_FAIL_TO_CREATE_SOCKET")

tcp_connect ==
    Attempt("connect", "stream", {}, return_error_with_socket,
            "OTA_FAIL_TO_CONNECT_TO_SERVER")

stream_init ==
    Attempt("stream", "request", {"stream"}, return_error_with_socket,
            "OTA_FAIL_TO_CREATE_TCP_STREAM")

\* Without a path nothing is sent, and the stream is not released.
no_path ==
    /\ stage = "request"
    /\ ~args.path
    /\ GoTo(return_error_with_socket, "OTA_FAILURE")
    /\ UNCHANGED <<args, len, received, flashVars>>

send_request ==
    /\ args.path
    /\ Attempt("request", "status", {"buf"}, return_error_with_stream,
               "OTA_FAIL_TO_SEND_HTTP_REQUEST")

read_status ==
    \E no \in {"OTA_FAIL_BY_BAD_HTTP_RESPONSE", "OTA_NO_UPGRADE", "OTA_NO_UPGRADE_204",
               "OTA_NO_UPGRADE_500", "OTA_NO_UPGRADE_4XX"} :
        Attempt("status", "headers", {}, return_error_with_stream, no)

\* All header lines; the length is looked at before a reading that failed is.
read_headers ==
    /\ stage = "headers"
    /\ len' \in 0 .. MaxSize + 1
    /\ IF len' = 0 \/ len' > MaxSize
       THEN GoTo(return_error_with_stream, "OTA_FAIL_BY_CONTENT_LENGTH_OVER_MAXSIZE")
       ELSE \/ stage' = "app" /\ UNCHANGED <<held, result>>
            \/ GoTo(return_error_with_stream, "OTA_FAIL_TO_FIND_EMPTY_LINE")
    /\ UNCHANGED <<args, received, flashVars>>

app_too_small ==
    /\ stage = "app"
    /\ SlotSize < len
    /\ GoTo(return_error_with_sflash, "OTA_FAIL_BY_BINARY_OVER_FLASHSIZE")
    /\ UNCHANGED <<args, len, received, flashVars>>

app_erase ==
    /\ stage = "app"
    /\ len <= SlotSize
    /\ stage' = "body"
    /\ held' = held \cup {"app"}
    /\ slot' = <<>> /\ chosen' = {}
    /\ UNCHANGED <<args, len, received, result, boot>>

\* The result of the writing is not looked at.
download ==
    /\ stage = "body"
    /\ Len(received) < len
    /\ \/ \E c \in Chunk, w \in Chunk \cup {"damaged"} :
             /\ w \in {c, "damaged"}
             /\ received' = Append(received, c)
             /\ slot' = Append(slot, w)
             /\ UNCHANGED <<stage, held, result>>
       \/ /\ \E no \in {"OTA_FAIL_TO_RECV_BINARY", "OTA_FAILURE"} :
                GoTo(return_error_with_sflash, no)
          /\ UNCHANGED <<received, slot>>
    /\ UNCHANGED <<args, len, boot, chosen>>

completed_with_tls ==
    /\ stage = "body"
    /\ Len(received) = len
    /\ stage' = "hash"
    /\ held' = held \ {"app", "stream", "socket"}
    /\ UNCHANGED <<args, len, received, result, flashVars>>

download_completed ==
    /\ stage = "body"
    /\ Len(received) = len
    /\ stage' = "hash"
    /\ held' = held \ {"app", "stream", "socket", "tls"}
    /\ UNCHANGED <<args, len, received, result, flashVars>>

\* A malformed hash is not noticed as such, and no image has it.
HashMatches ==
    args.md5 = "none" \/ (args.md5 = "given" /\ received = Image)

check_hash ==
    /\ stage = "hash"
    /\ IF HashMatches THEN stage' = "verify" /\ held' = held \cup {"app"} /\ UNCHANGED result
       ELSE GoTo(return_error, "OTA_FAIL_MD5_VALIDATION")
    /\ UNCHANGED <<args, len, received, flashVars>>

verify_nothing ==
    /\ stage = "verify"
    /\ stage' = "select"
    /\ held' = held \ {"app", "buf"}
    /\ UNCHANGED <<args, len, received, result, flashVars>>

verify_writing ==
    /\ stage = "verify"
    /\ IF slot = received
       THEN stage' = "select" /\ held' = held \ {"app", "buf"} /\ UNCHANGED result
       ELSE GoTo(return_error, "OTA_FAIL_MD5_VALIDATION_WRITING")
    /\ UNCHANGED <<args, len, received, flashVars>>

set_boot ==
    /\ stage = "select"
    /\ boot' = "slot"
    /\ chosen' = {[image |-> received, md5 |-> args.md5]}
    /\ IF args.no_reboot THEN stage' = "idle" /\ result' = "OTA_SUCCESS"
       ELSE stage' = "rebooting" /\ UNCHANGED result
    /\ UNCHANGED <<args, held, len, received, slot>>

\* The board starts again: after the upgrade, or when the power fails.
restart ==
    /\ stage' = "idle" /\ held' = {} /\ len' = 0 /\ received' = <<>>
    /\ result' = Nothing
    /\ UNCHANGED <<args, flashVars>>

UpgradeNext ==
    \/ \E a \in Args : a_upgrade_try(a)
    \/ hostname_lookup \/ create_socket \/ tcp_connect \/ stream_init
    \/ no_path \/ send_request \/ read_status \/ read_headers
    \/ app_too_small \/ app_erase \/ download \/ download_completed
    \/ check_hash \/ verify_writing \/ set_boot
    \/ restart

UpgradeSpec == UpgradeInit /\ [][UpgradeNext]_upgradeVars

-----------------------------------------------------------------------------
\* Every variable has its type; no more is downloaded than the slot holds.
UpgradeTypeOK ==
    /\ args \in Args
    /\ held \subseteq {"socket", "tls", "stream", "buf", "app"}
    /\ received \in Seq(Chunk) /\ Len(received) <= len
    /\ slot \in Seq(Chunk \cup {"damaged"}) /\ Len(slot) <= SlotSize
    /\ boot \in {"current", "slot"}
    /\ chosen \subseteq [image : Seq(Chunk), md5 : {"none", "given"}]
    /\ Cardinality(chosen) <= 1

\* A slot that was selected for the next boot, and was not erased for another
\* download since, holds exactly the chunks that were received, and if the caller
\* gave a hash these are the image it was made from: whatever steps failed, in
\* this call and in earlier ones, and whenever the power failed.
BootsVerified ==
    \A c \in chosen :
        /\ boot = "slot"
        /\ slot = c.image
        /\ c.md5 # "none" => slot = Image

\* What two exits leave acquired: the one without a path jumps past the release of
\* the stream (upgrade.c:140), and the one behind the comparison with the flash past
\* the closing of the slot's handle (upgrade.c:278).
Leaked ==
    {r \in {"stream", "app"} :
        \/ r = "stream" /\ ~args.path /\ result = "OTA_FAILURE"
        \/ r = "app" /\ result = "OTA_FAIL_MD5_VALIDATION_WRITING"}

\* A call that returns has released what it acquired, on each of its fifteen error
\* paths but these two, and has then kept just what they leave.
Released == stage = "idle" => held = Leaked

\* OTA_SUCCESS (upgrade.h:10) says that the upgrade succeeded: the slot holds a
\* new image and is selected for the next boot.
SuccessMeansUpgraded ==
    result = "OTA_SUCCESS" => boot = "slot" /\ chosen # {}
=============================================================================
