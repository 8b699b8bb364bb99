CONSTANTS
    Emails = {e1, e2, e3}
    MaxResets = 1
SPECIFICATION Spec
INVARIANT UpgradeResumes
