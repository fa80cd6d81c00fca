\* An lminstall fails at dpkg's lock and deletes a file it never installed.
CONSTANTS
    i1 = i1
    i2 = i2
    Installs = {i1, i2}
    Upgrades = {}
    Nobody = nobody
SPECIFICATION Spec
PROPERTIES DeletedIsInstalled
