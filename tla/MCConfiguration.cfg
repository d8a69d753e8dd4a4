SPECIFICATION Spec
CONSTANTS
  Programs <- SomePrograms
  Environments <- SomeEnvironments
  Settings <- SomeSettings
  Certificates <- SomeCertificates
  ServerCertificate <- OwnCertificate
  None = None
  MaxSettings = 3
  MaxHandles = 2
  MaxFailures = 1
INVARIANTS ServedAsConfigured CertificateAsPresented
