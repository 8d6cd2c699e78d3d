------------------------------ MODULE Serving ------------------------------
(***************************************************************************)
(* What the repository serves.  A handler may still be publishing a unit   *)
(* when another one has completed the epoch: it goes on with the entries   *)
(* it has read and may rename, remove or list a file that a later epoch    *)
(* has replaced meanwhile (publishMetadata looks at no epoch).  What such  *)
(* a handler changes is past every promise, and a history variable tells   *)
(* it from the rest; the behaviours are those of ImportPublish.            *)
(***************************************************************************)
EXTENDS ImportPublishProperties

VARIABLE
    disturbed  \* the metadata files changed by a publisher after its epoch

svars == <<vars, disturbed>>

Publishing(t) == th[t].pc \in {"metadata", "rename", "catalog"}
Outlived(t) == Publishing(t) /\ epochStatus[EpochOfThread(t)] = "COMPLETE"

(* A publisher moves on with every change it makes. *)
Disturbs(path) ==
    /\ <<disk[path], catalog[path]>>' # <<disk[path], catalog[path]>>
    /\ \E t \in Threads : Outlived(t) /\ th'[t] # th[t]
Witness == disturbed' = disturbed \cup {path \in MetadataPaths : Disturbs(path)}

ServingInit == Init /\ disturbed = {}
ServingNext == Next /\ Witness
ServingSpec == ServingInit /\ [][ServingNext]_svars

-----------------------------------------------------------------------------
(* Within a unit of the open epoch, metadata appears in the order of       *)
(* publishPriority: when a file appears, all that come before it are       *)
(* already served (Release after the indexes, InRelease last), unless a    *)
(* publisher of an earlier epoch has been at one of them.                  *)
PublishOrder ==
    [][\A m \in Metadata :
         /\ UnitEpoch[UnitOf[m]] = active
         /\ PathOf[m] \notin disturbed'
         /\ disk[PathOf[m]] # ContentOf[m] /\ disk'[PathOf[m]] = ContentOf[m]
         => \A n \in Metadata :
              UnitOf[n] = UnitOf[m] /\ Priority[n] < Priority[m] /\ PathOf[n] \notin disturbed
                => disk[PathOf[n]] = ContentOf[n]]_svars

(* With no epoch open, the repository and the catalog show exactly the     *)
(* completed target: every metadata entry of the epoch that reached the    *)
(* live cursor is served with its content, whatever publishers are still   *)
(* at work, but for the files one of those has changed itself              *)
(* (publishMetadata, CompleteEpoch).                                       *)
CurrentMetadata ==
    {m \in Metadata : LET e == EpochOf[BatchOf[PackOf[m]]] IN
                        epochStatus[e] = "COMPLETE" /\ Target[e] = cursor}
ServesTarget ==
    active = None =>
        \A m \in CurrentMetadata : PathOf[m] \in disturbed \/ Installed(m)
=============================================================================
