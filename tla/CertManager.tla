---- MODULE CertManager ----
(* The certificate manager of a node (internal/cert/cert.go): material from files, the panel, a    *)
(* self-signed key or ACME, kept in memory as one snapshot and on disk as cert.pem and key.pem,    *)
(* written by two goroutines: the service's Reconfigure and certmagic's renewal callback.          *)
(* certmagic's storage and the kernel that loads the material are external.                        *)
EXTENDS Naturals, FiniteSets

CONSTANTS CertConfigs,   \* the certificate configurations a panel or a file may give
          FilePairs,     \* what the two configured files may hold
          MaxRenewals, MaxReconfigures, MaxTroubles

ASSUME CertConstants ==
  /\ \A p \in FilePairs \cup {c.content : c \in CertConfigs} : p = [cert |-> p.cert, key |-> p.key]
  /\ MaxRenewals \in Nat

None == <<>>
NoPair == [cert |-> None, key |-> None]
Twin(half) == [cert |-> half, key |-> half]
SelfHalf(n) == <<"self", n>>
AcmeHalf(d, n) == <<"acme", d, n>>

VARIABLES certCfg,    \* m.cfg
          running,    \* the configuration the kernel was last started with
          mat,        \* m.mat
          certDisk,   \* cert.pem and key.pem in cert_dir
          files,      \* the files cert_file and key_file name
          storage,    \* certmagic's storage: domain -> the number of its latest certificate
          acme,       \* acmeStarted and acmeFingerprint
          renewed,    \* m.renewed
          writer,     \* the goroutines that store material, and what each is about to do
          oldTLS,     \* Reconfigure's oldTLS
          loaded,     \* the material the kernel runs with
          certBudget  \* what the bounds leave
certVars == <<certCfg, running, mat, certDisk, files, storage, acme, renewed, writer, oldTLS, loaded, certBudget>>

Writers == {"service", "renewal"}
Resting == [at |-> "idle", pair |-> NoPair]
Domains == {c.domain : c \in CertConfigs} \ {""}
NoACME == [started |-> FALSE, fingerprint |-> <<>>]

ValidateKeyPair(pair) == pair.cert = pair.key /\ pair.cert # None
ResolveMode(c) ==
  IF c.mode # "" THEN c.mode
  ELSE IF c.auto THEN "http"
  ELSE IF c.content.cert # None /\ c.content.key # None THEN "content"
  ELSE IF c.files THEN "file" ELSE "none"
AcmeFingerprint(c) == <<c.mode, c.domain, c.provider>>

To(w, at, pair) == writer' = [writer EXCEPT ![w] = [at |-> at, pair |-> pair]]
Step(w, at) == To(w, at, writer[w].pair)
Hold(w, at) == writer[w].at = at
Spend(what) == certBudget[what] > 0 /\ certBudget' = [certBudget EXCEPT ![what] = @ - 1]

CertInit ==
  /\ certCfg \in CertConfigs /\ running = certCfg
  /\ mat = NoPair /\ certDisk = NoPair /\ loaded = NoPair /\ oldTLS = NoPair
  /\ files \in FilePairs /\ storage = [d \in Domains |-> 0]
  /\ acme = NoACME /\ renewed = FALSE /\ writer = [w \in Writers |-> Resting]
  /\ certBudget = [renewals |-> MaxRenewals, reconfigures |-> MaxReconfigures, troubles |-> MaxTroubles, selves |-> 2]

\* Reconfigure tears ACME down when the new configuration no longer asks for the same one.
Stale(c) == acme.started /\ (ResolveMode(c) \notin {"http", "dns"} \/ AcmeFingerprint(c) # acme.fingerprint)
Reconfigure(c) ==
  /\ Hold("service", "idle") /\ Spend("reconfigures")
  /\ acme' = IF Stale(c) THEN NoACME ELSE acme
  /\ mat' = IF Stale(c) THEN NoPair ELSE mat
  /\ oldTLS' = mat' /\ certCfg' = c
  /\ To("service", "start", NoPair)
  /\ UNCHANGED <<running, certDisk, files, storage, renewed, loaded>>

Fails == Step("service", "failed")
Starting(mode) == Hold("service", "start") /\ ResolveMode(certCfg) = mode
StoreNext(pair) == To("service", "store", pair)
KeepCert == UNCHANGED <<certCfg, running, certDisk, files, renewed, oldTLS, loaded>>

StartNone == Starting("none") /\ Step("service", "return") /\ KeepCert /\ UNCHANGED <<mat, storage, acme, certBudget>>
StartFile ==
  /\ Starting("file") /\ KeepCert /\ UNCHANGED <<mat, storage, acme, certBudget>>
  /\ IF ValidateKeyPair(files) THEN StoreNext(files) ELSE Fails

\* Mutant: the persisted files are taken as they are.
LoadPersistedHalves ==
  /\ certDisk.cert # None /\ certDisk.key # None
  /\ mat' = certDisk /\ Step("service", "return") /\ UNCHANGED certBudget
\* loadPersistedPEM: what an earlier process left, if it is a pair; it goes to memory only.
LoadPersistedPEM ==
  /\ ValidateKeyPair(certDisk)
  /\ mat' = certDisk /\ Step("service", "return") /\ UNCHANGED certBudget
StartSelfSigned ==
  /\ Starting("self") /\ KeepCert /\ UNCHANGED <<storage, acme>>
  /\ \/ LoadPersistedPEM
     \/ /\ ~ValidateKeyPair(certDisk) /\ UNCHANGED mat
        /\ Spend("selves") /\ StoreNext(Twin(SelfHalf(certBudget.selves)))
StartContent ==
  /\ Starting("content") /\ KeepCert /\ UNCHANGED <<storage, acme>>
  /\ LET given == certCfg.content.cert # None /\ certCfg.content.key # None IN
     \/ ~given /\ LoadPersistedPEM
     \/ /\ UNCHANGED <<mat, certBudget>>
        /\ \/ ~given /\ ~ValidateKeyPair(certDisk) /\ Fails
           \/ given /\ (IF ValidateKeyPair(certCfg.content) THEN StoreNext(certCfg.content) ELSE Fails)

\* buildDNSSolver refuses a provider it does not know; startACME returns at once when it runs already.
NewDNSProvider(c) == ResolveMode(c) = "dns" => c.provider # ""
ObtainCertSync(d) == storage' = [storage EXCEPT ![d] = IF @ = 0 THEN 1 ELSE @]
StartACME ==
  /\ Starting("http") \/ Starting("dns")
  /\ KeepCert /\ UNCHANGED <<mat, acme>>
  /\ \/ /\ NewDNSProvider(certCfg) /\ acme.started
        /\ Step("service", "return") /\ UNCHANGED <<storage, certBudget>>
     \/ /\ ~NewDNSProvider(certCfg) \/ (~acme.started /\ certCfg.domain = "")
        /\ Fails /\ UNCHANGED <<storage, certBudget>>
     \/ /\ NewDNSProvider(certCfg) /\ ~acme.started /\ certCfg.domain # ""
        /\ \/ /\ ObtainCertSync(certCfg.domain) /\ UNCHANGED certBudget
              /\ StoreNext(Twin(AcmeHalf(certCfg.domain, storage'[certCfg.domain])))
           \/ Spend("troubles") /\ Fails /\ UNCHANGED storage

\* storePEM: the snapshot first, then cert.pem, then key.pem; a failed write is only logged. The two
\* writers share the temporary names, so when both write the same file either content may land.
StoreMemory(w) ==
  /\ Hold(w, "store") /\ mat' = writer[w].pair /\ Step(w, "cert")
  /\ UNCHANGED <<certCfg, running, certDisk, files, storage, acme, renewed, oldTLS, loaded, certBudget>>
AtomicWriteFile(w, half) ==
  \/ Spend("troubles") /\ UNCHANGED certDisk
  \/ /\ UNCHANGED certBudget
     /\ \E v \in Writers : writer[v].at = writer[w].at /\ certDisk' = [certDisk EXCEPT ![half] = writer[v].pair[half]]
PersistPEM(w) ==
  /\ \/ Hold(w, "cert") /\ AtomicWriteFile(w, "cert") /\ Step(w, "key")
     \/ Hold(w, "key") /\ AtomicWriteFile(w, "key") /\ Step(w, "stored")
  /\ UNCHANGED <<certCfg, running, mat, files, storage, acme, renewed, oldTLS, loaded>>
\* ManageAsync hands the certificate to certmagic's background maintenance.
Stored ==
  /\ Hold("service", "stored") /\ KeepCert /\ UNCHANGED <<mat, storage>>
  /\ IF ResolveMode(certCfg) \in {"http", "dns"}
     THEN \/ /\ acme' = [started |-> TRUE, fingerprint |-> AcmeFingerprint(certCfg)]
             /\ Step("service", "return") /\ UNCHANGED certBudget
          \/ Spend("troubles") /\ Fails /\ UNCHANGED acme
     ELSE Step("service", "return") /\ UNCHANGED <<acme, certBudget>>

\* The service restarts the kernel for a new configuration or changed material, and stops it when
\* the certificate could not be applied (applyNodeCert).
ApplyNodeCert ==
  /\ \/ /\ Hold("service", "return") /\ running' = certCfg
        /\ loaded' = IF oldTLS # mat \/ running # certCfg THEN mat ELSE loaded
     \/ Hold("service", "failed") /\ loaded' = NoPair /\ UNCHANGED running
  /\ To("service", "idle", NoPair)
  /\ UNCHANGED <<certCfg, mat, certDisk, files, storage, acme, renewed, oldTLS, certBudget>>

\* certmagic renews for a manager that runs; its callback reads the domain of the configuration of
\* the moment, so one that is late may run beside or after a Reconfigure.
Renew ==
  /\ acme.started /\ Hold("renewal", "idle") /\ Spend("renewals")
  /\ \E d \in Domains : d = acme.fingerprint[2] /\ storage' = [storage EXCEPT ![d] = @ + 1]
  /\ To("renewal", "load", NoPair)
  /\ UNCHANGED <<certCfg, running, mat, certDisk, files, acme, renewed, oldTLS, loaded>>
Issued(d) == d \in Domains /\ storage[d] > 0
LoadPEMFromStorage ==
  /\ Hold("renewal", "load")
  /\ \/ /\ Issued(certCfg.domain) /\ UNCHANGED certBudget
        /\ To("renewal", "store", Twin(AcmeHalf(certCfg.domain, storage[certCfg.domain])))
     \/ /\ \/ ~Issued(certCfg.domain) /\ UNCHANGED certBudget
           \/ Spend("troubles")
        /\ To("renewal", "idle", NoPair)
  /\ UNCHANGED <<certCfg, running, mat, certDisk, files, storage, acme, renewed, oldTLS, loaded>>
FlagRenewed ==
  /\ Hold("renewal", "stored") /\ renewed' = TRUE /\ To("renewal", "idle", NoPair)
  /\ UNCHANGED <<certCfg, running, mat, certDisk, files, storage, acme, oldTLS, loaded, certBudget>>

\* CertRenewed takes the flag, then the service reloads the kernel with the snapshot of that later moment.
CertRenewed ==
  /\ Hold("service", "idle") /\ renewed /\ renewed' = FALSE /\ To("service", "reload", NoPair)
  /\ UNCHANGED <<certCfg, running, mat, certDisk, files, storage, acme, oldTLS, loaded, certBudget>>
ReloadKernel ==
  /\ Hold("service", "reload") /\ loaded' = mat /\ To("service", "idle", NoPair)
  /\ UNCHANGED <<certCfg, running, mat, certDisk, files, storage, acme, renewed, oldTLS, certBudget>>

\* The process dies and starts over: the disk and certmagic's storage are what it finds.
CrashCert ==
  /\ Spend("troubles")
  /\ mat' = NoPair /\ loaded' = NoPair /\ oldTLS' = NoPair /\ acme' = NoACME /\ renewed' = FALSE
  /\ writer' = [w \in Writers |-> Resting]
  /\ UNCHANGED <<certCfg, running, certDisk, files, storage>>
EditFiles ==
  /\ Spend("troubles") /\ files' \in FilePairs \ {files}
  /\ UNCHANGED <<certCfg, running, mat, certDisk, storage, acme, renewed, writer, oldTLS, loaded>>

CertNext ==
  \/ \E c \in CertConfigs : Reconfigure(c)
  \/ StartNone \/ StartFile \/ StartSelfSigned \/ StartContent \/ StartACME
  \/ \E w \in Writers : StoreMemory(w) \/ PersistPEM(w)
  \/ Stored \/ ApplyNodeCert \/ Renew \/ LoadPEMFromStorage \/ FlagRenewed \/ CertRenewed \/ ReloadKernel
  \/ CrashCert \/ EditFiles

Stages == {"idle", "start", "store", "cert", "key", "stored", "return", "failed", "load", "reload"}
CertTypeOK ==
  /\ certCfg \in CertConfigs /\ running \in CertConfigs /\ files \in FilePairs
  /\ storage \in [Domains -> 0..MaxRenewals + 1] /\ renewed \in BOOLEAN
  /\ \A w \in Writers : writer[w].at \in Stages
  /\ acme.started \in BOOLEAN
  /\ DOMAIN mat = {"cert", "key"} /\ DOMAIN certDisk = {"cert", "key"} /\ DOMAIN loaded = {"cert", "key"}

\* The kernel is never given a certificate with the key of another one, although the two files on
\* disk are written one after the other, by two goroutines, and a crash may come between them
\* (loadPersistedPEM and every Start validate the pair).
PairsMatch == mat.cert = mat.key /\ loaded.cert = loaded.key

\* Material the kernel does not run with is always on its way to it: whenever the service rests and
\* the renewal flag is down, the kernel runs with the snapshot in memory, unless a callback has yet
\* to raise the flag or the runtime was stopped because its certificate failed.
KernelCurrent ==
  Hold("service", "idle") /\ ~renewed /\ writer["renewal"].at \notin {"cert", "key", "stored"}
    => loaded = mat \/ loaded = NoPair
====
