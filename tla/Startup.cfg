SPECIFICATION FairListenSpec
INVARIANTS
  ListenTypeOK
  FirstErrorReturned
  ServesWhatIsLoaded
  GoodStartNeverCrashes
PROPERTIES
  ErrorsEndListen
  ServesOrSaysWhy
CHECK_DEADLOCK FALSE
