---------------------------- MODULE MediaUploads ----------------------------
(***************************************************************************)
(* Images uploaded straight to S3.  A presigned or multipart upload makes  *)
(* a media record; once the raw object is there a request puts the keys in *)
(* the upload queue, whose jobs render the variants of each raw object,    *)
(* delete it and mark the media READY.  A job that throws starts again at  *)
(* its first item.  The keys of the variants follow from the raw key.      *)
(***************************************************************************)
EXTENDS Naturals, Sequences

CONSTANTS Keys,            \* raw keys
          Variants,        \* variants rendered of an image
          Uploads,         \* jobs of the upload queue
          MaxUploadTries,  \* attempts of a job (3 in the code)
          MaxMediaFaults   \* S3 or database errors, crashes of the worker

ASSUME MediaAssumption ==
    Variants \in Nat \ {0} /\ MaxUploadTries \in Nat \ {0} /\ MaxMediaFaults \in Nat

VARIABLES media,        \* status of the media record of each key
          arrived,      \* keys whose raw object the client has completed
          raw,          \* raw objects in the bucket
          rendered,     \* variants of each key in the bucket
          enqueuing,    \* the request that enqueues: its step and its keys
          upload,       \* each job: items to do, step, variants put, attempts
          mediaBudget   \* faults that may still happen

mediaVars == <<media, arrived, raw, rendered, enqueuing, upload, mediaBudget>>

(* The items of a request: one or two keys (an array in the code).         *)
ItemLists == {<<k>> : k \in Keys}
             \cup {<<p[1], p[2]>> : p \in {q \in Keys \X Keys : q[1] # q[2]}}
NoRequest == [step |-> "idle", items |-> <<>>]
NoUpload == [items |-> <<>>, done |-> 0, step |-> "none", put |-> 0, tries |-> 0]

MediaTypeOK ==
    /\ media \in [Keys -> {"none", "UPLOADED", "PROCESSING", "READY", "FAILED"}]
    /\ arrived \subseteq Keys /\ raw \subseteq Keys
    /\ rendered \in [Keys -> 0..Variants]
    /\ enqueuing \in {NoRequest} \cup [step : {"head", "mark", "add"}, items : ItemLists]
    /\ upload \in [Uploads ->
                     {NoUpload} \cup
                     [items : ItemLists, done : 0..2, put : 0..Variants,
                      step : {"download", "put", "drop", "record", "over"},
                      tries : 1..MaxUploadTries]]
    /\ mediaBudget \in 0..MaxMediaFaults

MediaInit ==
    /\ media = [k \in Keys |-> "none"]
    /\ arrived = {} /\ raw = {}
    /\ rendered = [k \in Keys |-> 0]
    /\ enqueuing = NoRequest
    /\ upload = [j \in Uploads |-> NoUpload]
    /\ mediaBudget = MaxMediaFaults

MediaFault == mediaBudget > 0 /\ mediaBudget' = mediaBudget - 1
Enqueues(from, to) == enqueuing.step = from /\ enqueuing' = [enqueuing EXCEPT !.step = to]
bucket == <<arrived, raw, rendered>>
-----------------------------------------------------------------------------
(* createPresignedUpload, createPresignedPost, startMultipartUpload.       *)
CreatePresignRecord(k) ==
    /\ media[k] = "none"
    /\ media' = [media EXCEPT ![k] = "UPLOADED"]
    /\ UNCHANGED <<bucket, enqueuing, upload, mediaBudget>>

(* The client's PUT or POST, or CompleteMultipartUpload.                   *)
PutRaw(k) ==
    /\ media[k] = "UPLOADED" /\ k \notin arrived
    /\ arrived' = arrived \cup {k} /\ raw' = raw \cup {k}
    /\ UNCHANGED <<media, rendered, enqueuing, upload, mediaBudget>>

(* abortMultipartUpload: S3 refuses it once the upload is complete.        *)
AbortMultipartUpload(k) ==
    /\ media[k] = "UPLOADED" /\ k \notin arrived
    /\ media' = [media EXCEPT ![k] = "FAILED"]
    /\ UNCHANGED <<bucket, enqueuing, upload, mediaBudget>>

(* enqueueFromS3: the heads of the objects, the mark, the job.             *)
EnqueueFromS3(items) ==
    /\ enqueuing = NoRequest
    /\ \E j \in Uploads : upload[j] = NoUpload
    /\ enqueuing' = [step |-> "head", items |-> items]
    /\ UNCHANGED <<media, bucket, upload, mediaBudget>>

LoadHeads ==
    /\ enqueuing.step = "head"
    /\ IF \A i \in DOMAIN enqueuing.items : enqueuing.items[i] \in raw
       THEN Enqueues("head", "mark")
       ELSE enqueuing' = NoRequest
    /\ UNCHANGED <<media, bucket, upload, mediaBudget>>

MarkMediaAsProcessing ==
    /\ Enqueues("mark", "add")
    /\ media' = [k \in Keys |-> IF \E i \in DOMAIN enqueuing.items : enqueuing.items[i] = k
                                THEN "PROCESSING" ELSE media[k]]
    /\ UNCHANGED <<bucket, upload, mediaBudget>>

AddUpload(j) ==
    /\ enqueuing.step = "add" /\ upload[j] = NoUpload
    /\ upload' = [upload EXCEPT ![j] = [items |-> enqueuing.items, done |-> 0,
                                        step |-> "download", put |-> 0, tries |-> 1]]
    /\ enqueuing' = NoRequest
    /\ UNCHANGED <<media, bucket, mediaBudget>>

(* The request dies between its steps, or the queue refuses the job.       *)
EnqueueLost ==
    /\ enqueuing # NoRequest
    /\ MediaFault
    /\ enqueuing' = NoRequest
    /\ UNCHANGED <<media, bucket, upload>>
-----------------------------------------------------------------------------
(* processUploadJob and uploadFromS3KeyWithProgress.                       *)

Item(j) == upload[j].items[upload[j].done + 1]
Advance(j, from, to) == upload[j].step = from /\ upload' = [upload EXCEPT ![j].step = to]

(* The job throws: the next attempt starts with the first item.            *)
RetryUpload(j) ==
    LET job == upload[j] IN
    upload' = [upload EXCEPT ![j] =
        IF job.tries < MaxUploadTries
        THEN [job EXCEPT !.done = 0, !.put = 0, !.step = "download", !.tries = job.tries + 1]
        ELSE [job EXCEPT !.step = "over"]]

(* downloadObjectBuffer throws when the raw object is gone.                *)
DownloadRaw(j) ==
    /\ upload[j].step = "download"
    /\ IF Item(j) \in raw THEN Advance(j, "download", "put") ELSE RetryUpload(j)
    /\ UNCHANGED <<media, bucket, enqueuing, mediaBudget>>

\* Mutant: the loop over the variants ends one early.
PutVariantShort(j) ==
    LET n == upload[j].put + 1 IN
    /\ upload[j].step = "put"
    /\ rendered' = [rendered EXCEPT ![Item(j)] = IF @ < n THEN n ELSE @]
    /\ upload' = [upload EXCEPT ![j].put = n,
                                ![j].step = IF n + 1 >= Variants THEN "drop" ELSE "put"]
    /\ UNCHANGED <<media, arrived, raw, enqueuing, mediaBudget>>

PutVariant(j) ==
    LET n == upload[j].put + 1 IN
    /\ upload[j].step = "put"
    /\ rendered' = [rendered EXCEPT ![Item(j)] = IF @ < n THEN n ELSE @]
    /\ upload' = [upload EXCEPT ![j].put = n, ![j].step = IF n = Variants THEN "drop" ELSE "put"]
    /\ UNCHANGED <<media, arrived, raw, enqueuing, mediaBudget>>

(* The raw object is deleted before the record is written; an error of the *)
(* deletion is logged.                                                     *)
DropRaw(j) ==
    /\ Advance(j, "drop", "record")
    /\ \/ raw' = raw \ {Item(j)} /\ UNCHANGED mediaBudget
       \/ MediaFault /\ UNCHANGED raw
    /\ UNCHANGED <<media, arrived, rendered, enqueuing>>

(* createMediaRecord: READY, with the rows of the variants, in one         *)
(* transaction; then the next item, or the end of the job.                 *)
CreateMediaRecord(j) ==
    LET done == upload[j].done + 1 IN
    /\ upload[j].step = "record"
    /\ media' = [media EXCEPT ![Item(j)] = "READY"]
    /\ upload' = [upload EXCEPT
           ![j].done = done, ![j].put = 0,
           ![j].step = IF done = Len(upload[j].items) THEN "over" ELSE "download"]
    /\ UNCHANGED <<bucket, enqueuing, mediaBudget>>

(* S3, sharp or the database throws, or the worker dies and the job stalls.*)
UploadFails(j) ==
    /\ upload[j].step \in {"download", "put", "drop", "record"}
    /\ MediaFault
    /\ RetryUpload(j)
    /\ UNCHANGED <<media, bucket, enqueuing>>

(* removeOnComplete, removeOnFail.                                         *)
ForgetUpload(j) ==
    /\ upload[j].step = "over"
    /\ upload' = [upload EXCEPT ![j] = NoUpload]
    /\ UNCHANGED <<media, bucket, enqueuing, mediaBudget>>

MediaNext ==
    \/ \E k \in Keys : CreatePresignRecord(k) \/ PutRaw(k) \/ AbortMultipartUpload(k)
    \/ \E items \in ItemLists : EnqueueFromS3(items)
    \/ LoadHeads \/ MarkMediaAsProcessing \/ EnqueueLost
    \/ \E j \in Uploads :
          \/ AddUpload(j) \/ DownloadRaw(j) \/ PutVariant(j) \/ DropRaw(j)
          \/ CreateMediaRecord(j) \/ UploadFails(j) \/ ForgetUpload(j)

MediaSpec == MediaInit /\ [][MediaNext]_mediaVars
-----------------------------------------------------------------------------
(* Properties.                                                             *)

(* No image is lost and none is shown half done: what the client uploaded  *)
(* is in the bucket, raw or as all its variants, and a READY media has all *)
(* its variants, with jobs for the same key at work at the same time,      *)
(* retries from the first item and crashes at any step.                    *)
MediaKept ==
    \A k \in Keys :
        /\ k \in arrived => k \in raw \/ rendered[k] = Variants
        /\ media[k] = "READY" => rendered[k] = Variants
=============================================================================
