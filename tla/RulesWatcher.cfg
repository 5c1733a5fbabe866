SPECIFICATION WSpec
CONSTANT LastVersion = 4
INVARIANT KnowsWhatItScheduled
PROPERTIES UpToDateWhenOpen LaterReconcileRepairs
